---- MODULE Spec2Model ----
(***************************************************************************)
(* PupStitch pattern engine: generator (generatePattern and its helpers),  *)
(* customizer (updateColors, toggleFeature, adjustProportions,             *)
(* setDifficulty, applyCustomizations) and the store's updateCustomization.*)
(*                                                                         *)
(* Conventions                                                             *)
(*  - JavaScript objects that are shared by reference live in heaps        *)
(*    (patObjs, custObjs, genObjs, anaObjs) keyed by object ids; a field   *)
(*    holding an object is a field holding its id.  `{ ...pattern }` is a  *)
(*    new top-level object with the same ids in its fields.                *)
(*  - A string is a sequence of literal chunks (its concatenation); two    *)
(*    strings are equal when their chunk sequences are.  String.includes   *)
(*    is decided chunk by chunk with the table Markers.                    *)
(*  - Multipliers are in hundredths (100 = 1.0); yardages are exact        *)
(*    rationals [n, d]; section times are in units of 1/600000 hour.       *)
(*  - The em dash of the source strings is written "--".                  *)
(*  - null / undefined / '' are the empty string "" (all falsy);           *)
(*    an absent map key is a key outside the DOMAIN.                       *)
(*  - StitchInstruction.stitchesUsed, titles, descriptions, dates other    *)
(*    than updatedAt and the random pattern id are not modelled.           *)
(***************************************************************************)
EXTENDS Integers, Sequences, FiniteSets, TLC

\* ------------------------------------------------------------------------
\* Bounds of the model
\* ------------------------------------------------------------------------
MaxCalls == 3
MaxLen == 4

\* ------------------------------------------------------------------------
\* Generic helpers
\* ------------------------------------------------------------------------
Max(a, b) == IF a >= b THEN a ELSE b
Min(a, b) == IF a <= b THEN a ELSE b
\* Math.ceil(a / b), b > 0
CeilDiv(a, b) == -((-a) \div b)
\* Math.round(a / b), b > 0 (half rounds up)
RoundDiv(a, b) == (2 * a + b) \div (2 * b)
\* f[k] || dflt for a map whose absent keys are outside its domain
Get(f, k, dflt) == IF k \in DOMAIN f THEN f[k] ELSE dflt
\* Array.find: the first of the indices I of the elements that pass the
\* test, 0 when there is none
Find(I) == IF I = {} THEN 0 ELSE CHOOSE i \in I : \A j \in I : i <= j
\* exact rationals
RAdd(a, b) == [n |-> a.n * b.d + b.n * a.d, d |-> a.d * b.d]
RInt(k) == [n |-> k, d |-> 1]

\* ------------------------------------------------------------------------
\* Strings
\* ------------------------------------------------------------------------
\* substrings tested by the code that each literal chunk contains
\* (case-sensitive markers "x", "inc", "dec", "Magic ring"; markers of the
\* lower-cased text are prefixed "lc:")
Markers(chunk) ==
  CASE chunk = "Magic ring, 6 sc" -> {"Magic ring"}
    [] chunk = "(Sc 1, inc) x 6" -> {"x", "inc"}
    [] chunk = "(Sc 1, dec) x 6" -> {"x", "dec", "lc:dec"}
    [] chunk = "Fasten off" -> {"lc:fasten off"}
    [] chunk = "Cut yarn and weave in end" -> {"lc:cut yarn"}
    [] chunk = " -- work 2 sc into the same stitch to increase" -> {"inc"}
    [] chunk = " -- insert hook through front loops of next 2 stitches, yarn over and pull through all loops (invisible decrease)" -> {"x", "dec", "lc:dec"}
    [] chunk = " - 2 stitches in the same stitch for smooth increases" -> {"inc"}
    [] chunk = " - insert through 2 stitches and pull yarn through both for smooth decreases" -> {"dec", "lc:dec"}
    [] chunk = "FO. Cut yarn, leaving a ~12-inch tail for sewing. Weave end through remaining stitches and pull tight to close." -> {"inc", "lc:cut yarn"}
    [] OTHER -> {}
Includes(text, m) == \E i \in 1..Len(text) : m \in Markers(text[i])

\* ------------------------------------------------------------------------
\* Colour classifier
\* ------------------------------------------------------------------------
\* parseInt of the three hex pairs, for the hex codes of the model
RGBOf(hexc) ==
  CASE hexc = "#C4A265" -> <<196, 162, 101>>
    [] hexc = "#c4a265" -> <<196, 162, 101>>
    [] hexc = "#E8D5B0" -> <<232, 213, 176>>
    [] hexc = "#8B4513" -> <<139, 69, 19>>
    [] hexc = "#1A1A1A" -> <<26, 26, 26>>
    [] hexc = "#000000" -> <<0, 0, 0>>
    [] hexc = "#FFFFFF" -> <<255, 255, 255>>
    [] hexc = "#3B2F2F" -> <<59, 47, 47>>
    [] OTHER -> <<>>
\* String.toLowerCase of a hex code
LowerHex(hexc) ==
  CASE hexc = "#C4A265" -> "#c4a265"
    [] hexc = "#E8D5B0" -> "#e8d5b0"
    [] hexc = "#8B4513" -> "#8b4513"
    [] hexc = "#1A1A1A" -> "#1a1a1a"
    [] hexc = "#FFFFFF" -> "#ffffff"
    [] hexc = "#3B2F2F" -> "#3b2f2f"
    [] OTHER -> hexc

\* hue * d of the classifier, d = max - min, after the
\* "if (hue < 0) hue += 360"
HueTimesD(r, g, b, mx, d) ==
  LET hd0 == IF mx = r THEN 60 * (g - b)
             ELSE IF mx = g THEN 60 * (b - r) + 120 * d
             ELSE 60 * (r - g) + 240 * d
  IN IF hd0 < 0 THEN hd0 + 360 * d ELSE hd0

\* the if-chain of hexToColorName; sum = brightness * 3,
\* saturation = d / mx, hue = hd / d
ColorNameFor(sum, mx, d, hd) ==
  IF sum < 90 THEN "Black"
  ELSE IF sum > 690 /\ 10 * d < mx THEN "White"
  ELSE IF 100 * d < 12 * mx THEN
    (IF sum < 240 THEN "Charcoal"
     ELSE IF sum < 420 THEN "Gray"
     ELSE IF sum < 600 THEN "Light Gray"
     ELSE "Off-White")
  ELSE IF hd >= 15 * d /\ hd <= 50 * d THEN
    (IF sum < 180 THEN "Dark Brown"
     ELSE IF sum < 300 THEN "Brown"
     ELSE IF sum < 420 THEN "Warm Brown"
     ELSE IF sum < 540 THEN "Tan"
     ELSE "Golden")
  ELSE IF hd >= 10 * d /\ hd < 15 * d THEN
    (IF sum < 300 THEN "Rust" ELSE "Orange")
  ELSE IF hd >= 50 * d /\ hd < 70 * d THEN
    (IF sum < 360 THEN "Olive" ELSE "Yellow")
  ELSE IF hd < 10 * d \/ hd >= 340 * d THEN
    (IF sum < 240 THEN "Maroon"
     ELSE IF sum < 420 THEN "Dark Red"
     ELSE "Red")
  ELSE IF hd >= 70 * d /\ hd < 170 * d THEN "Green"
  ELSE IF hd >= 170 * d /\ hd < 260 * d THEN "Blue"
  ELSE IF hd >= 260 * d /\ hd < 300 * d THEN "Purple"
  ELSE IF hd >= 300 * d /\ hd < 340 * d THEN "Pink"
  ELSE "Medium"

\* the classifier on the parsed channels, mx and mn their max and min
ColorNameOfRGB(r, g, b, mx, mn) ==
  ColorNameFor(r + g + b, mx, mx - mn, HueTimesD(r, g, b, mx, mx - mn))

ColorNameOfChannels(rgb) ==
  ColorNameOfRGB(rgb[1], rgb[2], rgb[3],
                 Max(rgb[1], Max(rgb[2], rgb[3])),
                 Min(rgb[1], Min(rgb[2], rgb[3])))

hexToColorName(hexc) ==
  IF RGBOf(hexc) = <<>> THEN hexc ELSE ColorNameOfChannels(RGBOf(hexc))

\* ------------------------------------------------------------------------
\* Lookup tables of the generator
\* ------------------------------------------------------------------------
bodyPartOrder ==
  <<"head", "body", "frontLeg", "backLeg", "ear", "tail", "snout", "nose",
    "eyePatch">>

YARDAGE_BY_SIZE ==
  [small |-> [head |-> 18, body |-> 22, frontLeg |-> 8, backLeg |-> 8,
              ear |-> 5, tail |-> 6, snout |-> 5, nose |-> 2, eyePatch |-> 3],
   medium |-> [head |-> 40, body |-> 50, frontLeg |-> 18, backLeg |-> 18,
               ear |-> 10, tail |-> 12, snout |-> 10, nose |-> 4,
               eyePatch |-> 5],
   large |-> [head |-> 65, body |-> 80, frontLeg |-> 30, backLeg |-> 30,
              ear |-> 18, tail |-> 20, snout |-> 15, nose |-> 6,
              eyePatch |-> 8]]

\* ounces * 10
STUFFING_BY_SIZE == [small |-> 15, medium |-> 40, large |-> 80]

SAFETY_EYES_BY_SIZE ==
  [small |-> "6-8mm", medium |-> "9-12mm", large |-> "12-15mm"]

STUFFING_LEVEL ==
  [head |-> "firmly", body |-> "firmly", frontLeg |-> "moderately",
   backLeg |-> "moderately", ear |-> "lightly (or leave flat)",
   tail |-> "lightly", snout |-> "moderately", nose |-> "very lightly",
   eyePatch |-> "do not stuff"]

PRESET_TO_AI_PART ==
  [head |-> "head", body |-> "body", frontLeg |-> "legs", backLeg |-> "legs",
   ear |-> "ears", tail |-> "tail", snout |-> "snout", nose |-> "nose",
   eyePatch |-> "head"]

formatBodyPartName(name) ==
  CASE name = "head" -> "Head"
    [] name = "body" -> "Body"
    [] name = "frontLeg" -> "Front Legs"
    [] name = "backLeg" -> "Back Legs"
    [] name = "ear" -> "Ears"
    [] name = "tail" -> "Tail"
    [] name = "snout" -> "Snout"
    [] name = "nose" -> "Nose"
    [] name = "eyePatch" -> "Eye Patch"
    [] OTHER -> name

getSizeKey(multiplier) ==
  IF multiplier <= 85 THEN "small"
  ELSE IF multiplier >= 130 THEN "large"
  ELSE "medium"


\* ------------------------------------------------------------------------
\* Colour assignment
\* ------------------------------------------------------------------------
\* `Light ${name}`, one chunk, so that it equals the classifier's own
\* "Light Gray"
LightOf(name) ==
  CASE name = "Gray" -> "Light Gray"
    [] name = "Black" -> "Light Black"
    [] name = "White" -> "Light White"
    [] name = "Charcoal" -> "Light Charcoal"
    [] name = "Brown" -> "Light Brown"
    [] name = "Dark Brown" -> "Light Dark Brown"
    [] name = "Warm Brown" -> "Light Warm Brown"
    [] name = "Tan" -> "Light Tan"
    [] name = "Golden" -> "Light Golden"
    [] OTHER -> "Light ?"
\* partName.charAt(0).toUpperCase() + partName.slice(1)
Capitalize(partName) ==
  CASE partName = "head" -> "Head"
    [] partName = "body" -> "Body"
    [] partName = "ears" -> "Ears"
    [] partName = "legs" -> "Legs"
    [] partName = "tail" -> "Tail"
    [] partName = "snout" -> "Snout"
    [] partName = "nose" -> "Nose"
    [] OTHER -> partName
\* `bp-${partName}`
BpKey(partName) ==
  CASE partName = "head" -> "bp-head"
    [] partName = "body" -> "bp-body"
    [] partName = "ears" -> "bp-ears"
    [] partName = "legs" -> "bp-legs"
    [] partName = "tail" -> "bp-tail"
    [] partName = "snout" -> "bp-snout"
    [] partName = "nose" -> "bp-nose"
    [] OTHER -> "bp-?"

\* the label of a body-part colour: the colour name, with the part in
\* brackets when the name is already used
BpLabel(bpName, partName, usedNames) ==
  IF <<bpName>> \in usedNames
  THEN <<bpName, " (", Capitalize(partName), ")">>
  ELSE <<bpName>>

\* assignments.find(a => a.hexCode.toLowerCase() ===
\*                       bp.primaryColor.toLowerCase()) found something
HasHexCode(assignments, hexc) ==
  \E k \in 1..Len(assignments) :
    LowerHex(assignments[k].hexCode) = LowerHex(hexc)

\* assignments.push({ colorKey, hexCode, yarnName })
PushAssignment(assignments, colorKey, hexCode, yarnName) ==
  Append(assignments,
         [colorKey |-> colorKey, hexCode |-> hexCode, yarnName |-> yarnName])

\* the for-loop of buildColorAssignments over analysis.bodyPartAnalysis
RECURSIVE BpLoop(_, _, _, _)
BpLoop(bpa, i, assignments, usedNames) ==
  IF i > Len(bpa) THEN assignments
  ELSE IF bpa[i].primaryColor = ""
  THEN BpLoop(bpa, i + 1, assignments, usedNames)
  ELSE IF HasHexCode(assignments, bpa[i].primaryColor)
  THEN BpLoop(bpa, i + 1, assignments, usedNames)
  ELSE BpLoop(bpa, i + 1,
              PushAssignment(assignments, BpKey(bpa[i].partName),
                             bpa[i].primaryColor,
                             BpLabel(hexToColorName(bpa[i].primaryColor),
                                     bpa[i].partName, usedNames)),
              usedNames \cup {BpLabel(hexToColorName(bpa[i].primaryColor),
                                      bpa[i].partName, usedNames)})

\* secondaryName === primaryName ? `Light ${secondaryName}` : secondaryName
SecondaryYarnName(secName, primaryName) ==
  IF secName = primaryName THEN <<LightOf(secName)>> ELSE <<secName>>

\* the primary assignment, then secondary, tertiary and accent where the
\* analysis has them
PaletteAssignments(c) ==
  LET a1 == PushAssignment(<<>>, "primary", c.primary,
                           <<hexToColorName(c.primary)>>)
      a2 == IF c.secondary # ""
            THEN PushAssignment(a1, "secondary", c.secondary,
                                SecondaryYarnName(
                                  hexToColorName(c.secondary),
                                  hexToColorName(c.primary)))
            ELSE a1
      a3 == IF c.tertiary # ""
            THEN PushAssignment(a2, "tertiary", c.tertiary,
                                <<hexToColorName(c.tertiary)>>)
            ELSE a2
  IN IF c.accent # ""
     THEN PushAssignment(a3, "accent", c.accent,
                         <<hexToColorName(c.accent)>>)
     ELSE a3

\* the body-part colours added to the palette assignments a4
BpAssignments(bpa, a4) ==
  BpLoop(bpa, 1, a4, {a4[k].yarnName : k \in 1..Len(a4)})

\* the dedicated nose colour: the analysed nose part, then accent, then
\* black
NoseHex(bpa, accent) ==
  LET noseIdx == Find({k \in 1..Len(bpa) : bpa[k].partName = "nose"})
      nose0 == IF noseIdx > 0 /\ bpa[noseIdx].primaryColor # ""
               THEN bpa[noseIdx].primaryColor
               ELSE "#000000"
  IN IF nose0 = "#000000" /\ accent # "" THEN accent ELSE nose0

\* if (!assignments.find(a => a.colorKey === 'nose')) assignments.push(..)
AddNose(a5, noseHex) ==
  IF Find({k \in 1..Len(a5) : a5[k].colorKey = "nose"}) = 0
  THEN PushAssignment(a5, "nose", noseHex, <<hexToColorName(noseHex)>>)
  ELSE a5

buildColorAssignments(analysis) ==
  AddNose(BpAssignments(analysis.bodyPartAnalysis,
                        PaletteAssignments(analysis.colors)),
          NoseHex(analysis.bodyPartAnalysis, analysis.colors.accent))

\* colorAssignment ? colorAssignment.yarnName || colorKey : colorKey
ColorNameOf(colorAssignments, colorKey) ==
  LET k == Find({j \in 1..Len(colorAssignments) :
                    colorAssignments[j].colorKey = colorKey})
  IN IF k > 0 /\ colorAssignments[k].yarnName # <<>>
     THEN colorAssignments[k].yarnName
     ELSE <<colorKey>>

\* analysis.bodyPartAnalysis.find(b => b.partName === aiPartName ||
\*                                     b.partName === partName), 0 if none
AiBpIndex(partName, analysis) ==
  Find({k \in 1..Len(analysis.bodyPartAnalysis) :
          \/ analysis.bodyPartAnalysis[k].partName
               = PRESET_TO_AI_PART[partName]
          \/ analysis.bodyPartAnalysis[k].partName = partName})

\* the name for an analysed part colour: the matching assignment's
\* yarnName || colorKey, else the classifier's name of the colour
BpColorName(ca, bpColor) ==
  LET m == Find({k \in 1..Len(ca) :
                   LowerHex(ca[k].hexCode) = LowerHex(bpColor)})
  IN IF m > 0
     THEN (IF ca[m].yarnName # <<>> THEN ca[m].yarnName
           ELSE <<ca[m].colorKey>>)
     ELSE <<hexToColorName(bpColor)>>

\* the name when the analysis has no colour for the part: the nose
\* assignment for the nose, else the primary assignment, else "Main Color"
DefaultColorName(partName, ca) ==
  LET ni == Find({k \in 1..Len(ca) : ca[k].colorKey = "nose"})
      pi == Find({k \in 1..Len(ca) : ca[k].colorKey = "primary"})
  IN IF partName = "nose" /\ ni > 0
     THEN (IF ca[ni].yarnName # <<>> THEN ca[ni].yarnName ELSE <<"Black">>)
     ELSE IF pi > 0 /\ ca[pi].yarnName # <<>> THEN ca[pi].yarnName
     ELSE <<"Main Color">>

getBodyPartColorName(partName, analysis, customizations) ==
  IF /\ AiBpIndex(partName, analysis) > 0
     /\ analysis.bodyPartAnalysis[AiBpIndex(partName, analysis)]
          .primaryColor # ""
  THEN BpColorName(customizations.colorAssignments,
                   analysis.bodyPartAnalysis[AiBpIndex(partName, analysis)]
                     .primaryColor)
  ELSE DefaultColorName(partName, customizations.colorAssignments)

\* ------------------------------------------------------------------------
\* Fallback body part analysis
\* ------------------------------------------------------------------------
\* a fallback that ignores the analysed primary colour: one head part in
\* the default brown
generateFallbackBodyPartAnalysis_Brown(analysis) ==
  << [partName |-> "head", primaryColor |-> "#8B4513",
      crochetNotes |->
        <<"Work in continuous rounds. Stuff firmly for a rounded head shape.">>] >>

generateFallbackBodyPartAnalysis(analysis) ==
  LET primary == IF analysis.colors.primary # "" THEN analysis.colors.primary
                 ELSE "#8B4513"
      earShape == IF analysis.earShape # "" THEN analysis.earShape
                  ELSE "floppy"
      tailType == IF analysis.tailType # "" THEN analysis.tailType
                  ELSE "straight"
      build == IF analysis.buildType # "" THEN analysis.buildType
               ELSE "athletic"
      snoutLen == IF analysis.snoutLength # 0 THEN analysis.snoutLength
                  ELSE 30
  IN
  << [partName |-> "head", primaryColor |-> primary,
      crochetNotes |->
        <<"Work in continuous rounds. Stuff firmly for a rounded head shape.">>],
     [partName |-> "body", primaryColor |-> primary,
      crochetNotes |->
        <<"Create the main body shape. ",
          IF build = "stocky" THEN "Use wider increases for a stocky build."
          ELSE IF build = "slender"
               THEN "Keep a slim profile with fewer increases."
               ELSE "Work standard increases for the body.">>],
     [partName |-> "ears", primaryColor |-> primary,
      crochetNotes |->
        IF earShape = "pointy"
        THEN <<"Create pointed triangular ears. Use pipe cleaners inside to keep them upright.">>
        ELSE <<"Create flat, rounded ear pieces. Leave unstuffed for a natural floppy look.">>],
     [partName |-> "tail", primaryColor |-> primary,
      crochetNotes |->
        <<"Shape the tail to match a ", tailType, " style. Stuff lightly.">>],
     [partName |-> "snout", primaryColor |-> primary,
      crochetNotes |->
        IF snoutLen < 25
        THEN <<"Very short snout -- almost flush with the face.">>
        ELSE <<"Attach centered on the lower half of the head.">>] >>


\* ------------------------------------------------------------------------
\* Instruction generation
\* ------------------------------------------------------------------------
\* the three String.replace calls of simplifyInstruction, chunk by chunk
SimplifyChunk(chunk) ==
  CASE chunk = "(Sc 1, inc) x 6" -> "Repeat pattern around"
    [] chunk = "(Sc 1, dec) x 6" -> "Repeat pattern around"
    [] chunk = "Magic ring, 6 sc" -> "Start with magic ring, 6 sc"
    [] OTHER -> chunk
simplifyInstruction(instruction) ==
  [i \in 1..Len(instruction) |-> SimplifyChunk(instruction[i])]

\* a variant that appends the decrease clarification twice
addDetailToInstruction_Again(instruction) ==
  instruction
  \o (IF Includes(instruction, "inc")
      THEN <<" -- work 2 sc into the same stitch to increase">> ELSE <<>>)
  \o (IF Includes(instruction, "dec")
      THEN <<" -- insert hook through front loops of next 2 stitches, yarn over and pull through all loops (invisible decrease)",
             " -- insert hook through front loops of next 2 stitches, yarn over and pull through all loops (invisible decrease)">>
      ELSE <<>>)

addDetailToInstruction(instruction) ==
  LET d1 == IF Includes(instruction, "inc")
            THEN <<" -- work 2 sc into the same stitch to increase">>
            ELSE <<>>
      d2 == IF Includes(instruction, "dec")
            THEN <<" -- insert hook through front loops of next 2 stitches, yarn over and pull through all loops (invisible decrease)">>
            ELSE <<>>
      d3 == IF Includes(instruction, "Magic ring")
            THEN <<" -- wrap yarn around fingers, insert hook, yarn over and pull through loop, chain 1, work stitches into the ring">>
            ELSE <<>>
  IN instruction \o d1 \o d2 \o d3

\* rowColorMap.get(rowNum): the colour key of the last zone covering the
\* row, "" when no zone covers it
RowColorMapGet(colorZones, rowNum) ==
  LET I == {k \in 1..Len(colorZones) :
              colorZones[k].startRow <= rowNum
              /\ rowNum <= colorZones[k].endRow}
  IN IF I = {} THEN ""
     ELSE colorZones[CHOOSE k \in I : \A j \in I : j <= k].colorKey

\* row.colorKey || rowColorMap.get(rowNum) || 'primary'
RowColorKey(row, colorZones) ==
  IF row.colorKey # "" THEN row.colorKey
  ELSE IF RowColorMapGet(colorZones, row.rowNumber) # ""
       THEN RowColorMapGet(colorZones, row.rowNumber)
       ELSE "primary"

RECURSIVE Flatten(_)
Flatten(ss) == IF ss = <<>> THEN <<>> ELSE Head(ss) \o Flatten(Tail(ss))

\* a variant that thins the rows out whatever the difficulty level
AdjustedCount_AnyLevel(stitchCount, i, sizeMultiplier, difficultyLevel) ==
  IF i - 1 > 2
  THEN Max(RoundDiv(stitchCount * sizeMultiplier, 10000) - 2, 1)
  ELSE RoundDiv(stitchCount * sizeMultiplier, 10000)

\* Math.round(row.stitchCount * sizeMultiplier), less 2 (at least 1) from
\* the fourth row on when simplified; i is the 1-based row index
AdjustedCount(stitchCount, i, sizeMultiplier, difficultyLevel) ==
  IF difficultyLevel = "simplified" /\ i - 1 > 2
  THEN Max(RoundDiv(stitchCount * sizeMultiplier, 10000) - 2, 1)
  ELSE RoundDiv(stitchCount * sizeMultiplier, 10000)

\* the row text with its colour prefix: "With .. yarn: " on the first row,
\* "Change to ..." where the colour key differs from the previous row's
PrefixedInstruction(text, i, colorKey, prevColorKey, colorName) ==
  IF i = 1 THEN <<"With ">> \o colorName \o <<" yarn: ">> \o text
  ELSE IF colorKey # prevColorKey
       THEN <<"Change to ">> \o colorName \o <<". ">> \o text
       ELSE text

\* the difficulty adjustment of one row text
DifficultyInstruction(prefixed, difficultyLevel) ==
  IF difficultyLevel = "simplified" /\ Includes(prefixed, "x")
  THEN simplifyInstruction(prefixed)
  ELSE IF difficultyLevel = "detailed"
       THEN addDetailToInstruction(prefixed)
       ELSE prefixed

\* the reminder pushed before the first row with a decrease
ReminderBefore(i, decreaseStartIdx, rowNum, stuffLevel) ==
  IF i = decreaseStartIdx /\ decreaseStartIdx > 1
  THEN <<[rowNumber |-> 0,
          instruction |->
            <<"--- Insert safety eyes between Rnds ",
              ToString(Max(1, rowNum - 4)), "-", ToString(rowNum - 1),
              " if applicable. Stuff piece ", stuffLevel,
              " before continuing. ---">>,
          notes |-> <<"Reminder">>]>>
  ELSE <<>>

isFinalRow(stitchCount, instruction) ==
  \/ stitchCount = 0
  \/ Includes(instruction, "lc:cut yarn")
  \/ Includes(instruction, "lc:fasten off")
  \/ Includes(instruction, "lc:pull through remaining")

\* the standard fasten-off text of a final row
FastenOffText ==
  <<"FO. Cut yarn, leaving a ~12-inch tail for sewing. Weave end through remaining stitches and pull tight to close.">>

\* the entry pushed for the row itself
RowEntry(rowNum, stitchCount, instruction, adjustedCount, notes) ==
  IF isFinalRow(stitchCount, instruction)
  THEN [rowNumber |-> rowNum,
        instruction |-> FastenOffText,
        notes |-> notes]
  ELSE [rowNumber |-> rowNum,
        instruction |->
          IF adjustedCount > 0
          THEN <<"Rnd ", ToString(rowNum), ": ">> \o instruction
               \o <<" [", ToString(adjustedCount), " sts]">>
          ELSE <<"Rnd ", ToString(rowNum), ": ">> \o instruction,
        notes |-> notes]

\* colorKey !== 'primary' ? `Color: ${colorNoteName}` : undefined
ColorNote(colorKey, colorName) ==
  IF colorKey # "primary" THEN <<"Color: ">> \o colorName ELSE <<>>

\* the entry of row i, given its colour key, the previous row's and the
\* colour's name
ColoredRowEntry(row, i, colorKey, prevColorKey, colorName, sizeMultiplier, difficultyLevel) ==
  RowEntry(row.rowNumber, row.stitchCount,
           DifficultyInstruction(
             PrefixedInstruction(row.instructions, i, colorKey, prevColorKey,
                                 colorName),
             difficultyLevel),
           AdjustedCount(row.stitchCount, i, sizeMultiplier, difficultyLevel),
           ColorNote(colorKey, colorName))

\* what one pass of the row loop pushes: the reminder, if any, and the
\* row's entry
RowOut(rows, i, colorZones, ca, sizeMultiplier, difficultyLevel, decreaseStartIdx, stuffLevel) ==
  ReminderBefore(i, decreaseStartIdx, rows[i].rowNumber, stuffLevel)
  \o <<ColoredRowEntry(
         rows[i], i, RowColorKey(rows[i], colorZones),
         IF i > 1 THEN RowColorKey(rows[i - 1], colorZones) ELSE "",
         ColorNameOf(ca, RowColorKey(rows[i], colorZones)),
         sizeMultiplier, difficultyLevel)>>

\* 1-based index of the first row with a decrease, 0 when none
DecreaseStartIdx(rows) ==
  Find({k \in 1..Len(rows) : Includes(rows[k].instructions, "lc:dec")})

generateInstructionsFromJsonRows(rows, colorZones, customizations, sizeMultiplier, difficultyLevel, partName) ==
  Flatten([i \in 1..Len(rows) |->
             RowOut(rows, i, colorZones, customizations.colorAssignments,
                    sizeMultiplier, difficultyLevel, DecreaseStartIdx(rows),
                    STUFFING_LEVEL[partName])])

\* ------------------------------------------------------------------------
\* Pattern sections
\* ------------------------------------------------------------------------
\* sizeAdjustment * proportionAdjustment of a part, in 1/10000
CombinedMultiplier(partName, customizations) ==
  LET pa == Get(customizations.proportionAdjustments, partName, 0)
  IN (IF customizations.sizeMultiplier # 0
      THEN customizations.sizeMultiplier ELSE 100)
     * (IF pa # 0 THEN pa ELSE 100)

\* bodyPartData.quantity || 1
QuantityOf(bodyPart) ==
  IF bodyPart.quantity # 0 THEN bodyPart.quantity ELSE 1

\* customizations.hookSizeOverride || preset.hookSize
HookSizeOf(preset, customizations) ==
  IF Get(customizations, "hookSizeOverride", "") # ""
  THEN customizations.hookSizeOverride
  ELSE preset.hookSize

\* the crochetNotes the analysis has for the part, <<>> when none
AiCrochetNotes(partName, analysis) ==
  IF AiBpIndex(partName, analysis) > 0
  THEN analysis.bodyPartAnalysis[AiBpIndex(partName, analysis)].crochetNotes
  ELSE <<>>

\* the notes of a section
SectionNotes(startingColorName, hookSize, aiCrochetNotes, stuffLevel, assemblyNotes) ==
  <<"With ">> \o startingColorName \o <<" yarn, ", hookSize, " hook.">>
  \o (IF aiCrochetNotes # <<>> THEN <<" ">> \o aiCrochetNotes ELSE <<>>)
  \o <<" ", "Stuff ", stuffLevel, ".">>
  \o (IF assemblyNotes # <<>> THEN <<" ">> \o assemblyNotes ELSE <<>>)

\* the name of a section: the part's display name, with "(make N)" when
\* the part is made more than once
SectionName(partName, quantity) ==
  IF quantity > 1
  THEN <<formatBodyPartName(partName), " (make ", ToString(quantity), ")">>
  ELSE <<formatBodyPartName(partName)>>

\* a variant without the 0.3-hour minimum
EstimatedTime_NoMinimum(rowCount, combinedMultiplier) ==
  rowCount * 2 * combinedMultiplier

\* Math.max(0.3, ((rowCount * 2) / 60) * combinedMultiplier), in 1/600000
\* hour
EstimatedTime(rowCount, combinedMultiplier) ==
  Max(180000, rowCount * 2 * combinedMultiplier)

\* the section of bodyPart, once its multiplier in 1/10000 is known
SectionWith(partName, bodyPart, preset, analysis, customizations, combinedMultiplier) ==
  [name |-> SectionName(partName, QuantityOf(bodyPart)),
   bodyParts |-> <<partName>>,
   instructions |->
     generateInstructionsFromJsonRows(
       bodyPart.rows, bodyPart.colorZones, customizations,
       combinedMultiplier, customizations.difficultyLevel, partName),
   notes |->
     SectionNotes(getBodyPartColorName(partName, analysis, customizations),
                  HookSizeOf(preset, customizations),
                  AiCrochetNotes(partName, analysis),
                  STUFFING_LEVEL[partName], bodyPart.assemblyNotes),
   estimatedTime |-> EstimatedTime(Len(bodyPart.rows), combinedMultiplier),
   quantity |-> QuantityOf(bodyPart)]

\* the body of the for-loop of generatePatternSections for one part that
\* is present and enabled
SectionOf(partName, preset, analysis, customizations) ==
  SectionWith(partName, preset.bodyParts[partName], preset, analysis,
              customizations, CombinedMultiplier(partName, customizations))

\* a loop that reads `toggledFeatures[partName]` as a plain truth value,
\* so that a part without an entry counts as disabled
EnabledParts_Falsy(preset, customizations) ==
  SelectSeq(bodyPartOrder,
            LAMBDA partName :
              /\ partName \in DOMAIN preset.bodyParts
              /\ Get(customizations.toggledFeatures, partName, FALSE) # FALSE)

\* the parts generatePatternSections emits a section for, in loop order
EnabledParts(preset, customizations) ==
  SelectSeq(bodyPartOrder,
            LAMBDA partName :
              /\ partName \in DOMAIN preset.bodyParts
              /\ Get(customizations.toggledFeatures, partName, TRUE) # FALSE)

RECURSIVE SumTimes(_)
SumTimes(sections) ==
  IF sections = <<>> THEN 0
  ELSE Head(sections).estimatedTime * Head(sections).quantity
       + SumTimes(Tail(sections))

\* the GeneratedPattern made of the sections secs
PatternOf(secs, skillLevel) ==
  [sections |->
     [k \in 1..Len(secs) |->
        [name |-> secs[k].name, bodyParts |-> secs[k].bodyParts,
         instructions |-> secs[k].instructions, notes |-> secs[k].notes,
         estimatedTime |-> secs[k].estimatedTime]],
   \* Math.round(totalTime * 10) / 10, in tenths of an hour
   estimatedTotalTime |-> RoundDiv(SumTimes(secs) * 10, 600000),
   skillLevel |-> skillLevel]

\* the sections of the parts, in the order given
SectionsOf(parts, preset, analysis, customizations) ==
  [k \in 1..Len(parts) |->
     SectionOf(parts[k], preset, analysis, customizations)]

generatePatternSections(preset, analysis, customizations, sizeKey) ==
  PatternOf(SectionsOf(EnabledParts(preset, customizations), preset,
                       analysis, customizations),
            preset.skillLevel)

\* ------------------------------------------------------------------------
\* Materials list
\* ------------------------------------------------------------------------
\* the yardage one enabled part adds to the accumulator for one colour key
\* (the zone loop, or the "All primary" branch)
RECURSIVE ZoneYardage(_, _, _, _)
ZoneYardage(bodyPartData, totalPartYardage, key, k) ==
  IF k > Len(bodyPartData.colorZones) THEN RInt(0)
  ELSE
    LET zone == bodyPartData.colorZones[k]
        totalRows == Len(SelectSeq(bodyPartData.rows,
                                   LAMBDA r : r.stitchCount > 0))
        zoneRows == Min(zone.endRow, Len(bodyPartData.rows))
                    - zone.startRow + 1
        colorYardage == IF totalRows > 0
                        THEN [n |-> totalPartYardage * zoneRows,
                              d |-> totalRows]
                        ELSE RInt(totalPartYardage)
        rest == ZoneYardage(bodyPartData, totalPartYardage, key, k + 1)
    IN IF zone.colorKey = key THEN RAdd(colorYardage, rest) ELSE rest

PartYardage(preset, yardageTable, partName, key) ==
  LET bodyPartData == preset.bodyParts[partName]
      baseYardage == IF Get(yardageTable, partName, 0) # 0
                     THEN yardageTable[partName] ELSE 10
      quantity == IF bodyPartData.quantity # 0 THEN bodyPartData.quantity
                  ELSE 1
      totalPartYardage == baseYardage * quantity
  IN IF Len(bodyPartData.colorZones) > 0
     THEN ZoneYardage(bodyPartData, totalPartYardage, key, 1)
     ELSE IF key = "primary" THEN RInt(totalPartYardage) ELSE RInt(0)

\* an accumulation loop without the toggledFeatures test
RECURSIVE YardagePerColor_AllParts(_, _, _, _, _)
YardagePerColor_AllParts(preset, customizations, yardageTable, key, p) ==
  IF p > Len(bodyPartOrder) THEN RInt(0)
  ELSE IF bodyPartOrder[p] \notin DOMAIN preset.bodyParts
  THEN YardagePerColor_AllParts(preset, customizations, yardageTable, key,
                                p + 1)
  ELSE RAdd(PartYardage(preset, yardageTable, bodyPartOrder[p], key),
            YardagePerColor_AllParts(preset, customizations, yardageTable,
                                     key, p + 1))

\* yardagePerColor[key] || 0 after the accumulation loop
RECURSIVE YardagePerColor(_, _, _, _, _)
YardagePerColor(preset, customizations, yardageTable, key, p) ==
  IF p > Len(bodyPartOrder) THEN RInt(0)
  ELSE
    LET partName == bodyPartOrder[p]
        rest == YardagePerColor(preset, customizations, yardageTable, key,
                                p + 1)
    IN IF partName \notin DOMAIN preset.bodyParts THEN rest
       ELSE IF Get(customizations.toggledFeatures, partName, TRUE) = FALSE
            THEN rest
            ELSE RAdd(PartYardage(preset, yardageTable, partName, key), rest)

\* a variant without the final Math.max(3, .)
YarnYardage_NoFloor(acc, colorKey) ==
  LET y == IF acc.n = 0
           THEN RInt(IF colorKey = "nose" THEN 3 ELSE 5)
           ELSE acc
  IN CeilDiv(115 * y.n + 300 * y.d, 100 * y.d)

\* yardage of one palette entry: default for untracked colours, 15% buffer
\* + 3 yards, Math.ceil, Math.max(3, .)
YarnYardage(acc, colorKey) ==
  LET y == IF acc.n = 0
           THEN RInt(IF colorKey = "nose" THEN 3 ELSE 5)
           ELSE acc
  IN Max(3, CeilDiv(115 * y.n + 300 * y.d, 100 * y.d))

RECURSIVE SumYardage(_)
SumYardage(yarns) ==
  IF yarns = <<>> THEN 0 ELSE Head(yarns).yardage + SumYardage(Tail(yarns))

\* the yarns array: one entry per colour assignment
YarnsOf(preset, customizations, yardageTable, ca) ==
  [k \in 1..Len(ca) |->
     [name |-> IF ca[k].yarnName # <<>> THEN ca[k].yarnName
               ELSE <<ca[k].colorKey>>,
      colorName |-> ca[k].colorKey,
      hexCode |-> ca[k].hexCode,
      yardage |-> YarnYardage(
                    YardagePerColor(preset, customizations, yardageTable,
                                    ca[k].colorKey, 1),
                    ca[k].colorKey),
      weight |-> preset.yarnWeight]]

\* the PatternMaterials around the yarns
MaterialsOf(yarns, preset, customizations, sizeKey) ==
  [yarns |-> yarns,
   hookSize |-> HookSizeOf(preset, customizations),
   safetyEyeSize |-> SAFETY_EYES_BY_SIZE[sizeKey],
   needsPipeCleaners |-> preset.defaultEarShape \in {"pointy", "button"},
   stuffingAmount |-> STUFFING_BY_SIZE[sizeKey],
   totalYardageNeeded |-> SumYardage(yarns)]

generateMaterialsList(preset, customizations, sizeKey) ==
  MaterialsOf(YarnsOf(preset, customizations, YARDAGE_BY_SIZE[sizeKey],
                      customizations.colorAssignments),
              preset, customizations, sizeKey)

\* ------------------------------------------------------------------------
\* Main generator
\* ------------------------------------------------------------------------
DefaultCustomizations ==
  [colorAssignments |-> <<>>,
   toggledFeatures |-> <<>>,
   proportionAdjustments |-> <<>>,
   difficultyLevel |-> "standard",
   sizeMultiplier |-> 100]

\* mergedCustomizations after the "Initialize color assignments" step
WithColorAssignments(merged, analysis) ==
  IF Len(merged.colorAssignments) = 0
  THEN [merged EXCEPT !.colorAssignments = buildColorAssignments(analysis)]
  ELSE merged

\* the analysis object after the "Ensure bodyPartAnalysis always exists"
\* step
WithBodyPartAnalysis(analysis) ==
  IF Len(analysis.bodyPartAnalysis) = 0
  THEN [analysis EXCEPT
          !.bodyPartAnalysis = generateFallbackBodyPartAnalysis(analysis)]
  ELSE analysis

\* the compile with the merged customizations and their size key
CompileWith(analysis, preset, mergedCustomizations, sizeKey) ==
  [breedId |-> analysis.detectedBreed,
   customizations |-> mergedCustomizations,
   generatedPattern |->
     generatePatternSections(preset, analysis, mergedCustomizations, sizeKey),
   materials |-> generateMaterialsList(preset, mergedCustomizations, sizeKey),
   analysisAfter |-> WithBodyPartAnalysis(analysis)]

CompileMerged(analysis, preset, mergedCustomizations) ==
  CompileWith(analysis, preset, mergedCustomizations,
              getSizeKey(mergedCustomizations.sizeMultiplier))

\* generatePattern(analysis, preset, customizations): the fields of the
\* returned CustomPattern (customizations and generatedPattern are fresh
\* objects, analysisResult is the analysis object passed in) and the value
\* the analysis object has when the call returns
generatePattern(analysis, preset, customizations) ==
  CompileMerged(analysis, preset,
                WithColorAssignments(customizations @@ DefaultCustomizations,
                                     analysis))

\* ------------------------------------------------------------------------
\* Breed presets (data/presets/*.json is not part of the sources: the
\* presets below are inputs of the model, in the two JSON layouts getPreset
\* normalises)
\* ------------------------------------------------------------------------
Row(n, text, count) ==
  [rowNumber |-> n, instructions |-> text, stitchCount |-> count,
   colorKey |-> ""]
Zone(startRow, endRow, colorKey) ==
  [startRow |-> startRow, endRow |-> endRow, colorKey |-> colorKey]
Part(quantity, rows, colorZones, assemblyNotes) ==
  [quantity |-> quantity, rows |-> rows, colorZones |-> colorZones,
   assemblyNotes |-> assemblyNotes]

RowsHead ==
  << Row(1, <<"Magic ring, 6 sc">>, 6),
     Row(2, <<"(Sc 1, inc) x 6">>, 9),
     Row(3, <<"Sc around">>, 9),
     Row(4, <<"Sc around">>, 9),
     Row(5, <<"(Sc 1, dec) x 6">>, 6),
     Row(6, <<"Fasten off">>, 0) >>
RowsLeg ==
  << Row(1, <<"Magic ring, 6 sc">>, 6),
     Row(2, <<"Sc around">>, 6),
     Row(3, <<"Fasten off">>, 0),
     Row(4, <<"Cut yarn and weave in end">>, 0) >>
RowsEar ==
  << Row(1, <<"Magic ring, 6 sc">>, 6),
     Row(2, <<"(Sc 1, inc) x 6">>, 9),
     Row(3, <<"Sc around">>, 9) >>
RowsTail ==
  << Row(1, <<"Magic ring, 6 sc">>, 6),
     Row(2, <<"Sc around">>, 6),
     Row(2, <<"Sc around">>, 6) >>

BREED_PRESETS ==
  [labrador |->
     [bodyParts |->
        [head |-> Part(1, RowsHead, <<>>, <<"Sew to body.">>),
         frontLeg |-> Part(2, RowsLeg, <<>>, <<>>),
         ear |-> Part(2, RowsEar, <<Zone(1, 3, "secondary")>>, <<>>),
         tail |-> Part(1, RowsTail, <<Zone(1, 1, "accent")>>, <<>>)],
      hookSize |-> "3.5mm", yarnWeight |-> "worsted",
      skillLevel |-> "beginner", defaultEarShape |-> "floppy",
      sizes |-> <<>>],
   corgi |->
     [bodyParts |-> <<>>,
      hookSize |-> "", yarnWeight |-> "",
      skillLevel |-> "", defaultEarShape |-> "pointy",
      sizes |->
        [small |->
           [bodyParts |->
              [head |-> Part(1, RowsEar, <<>>, <<>>),
               body |-> Part(1, RowsLeg, <<>>, <<>>)],
            hookSize |-> "2.5mm", yarnWeight |-> "sport"],
         medium |->
           [bodyParts |->
              [head |-> Part(1, RowsHead, <<>>, <<>>),
               body |-> Part(1, RowsHead, <<>>, <<>>),
               ear |-> Part(2, RowsEar, <<>>, <<>>)],
            hookSize |-> "", yarnWeight |-> ""]]]]

HasPreset(breedId) == breedId \in DOMAIN BREED_PRESETS

\* the size variant getPreset uses: the requested one, else medium;
\* <<>> when the preset has neither
SizeConfigOf(sizes, effectiveSize) ==
  IF effectiveSize \in DOMAIN sizes THEN sizes[effectiveSize]
  ELSE IF "medium" \in DOMAIN sizes THEN sizes["medium"]
  ELSE <<>>

\* the BreedPreset built from the JSON and its size variant
PresetOf(preset, sizeConfig) ==
  [bodyParts |-> IF sizeConfig # <<>> THEN sizeConfig.bodyParts
                 ELSE preset.bodyParts,
   hookSize |-> IF sizeConfig # <<>> /\ sizeConfig.hookSize # ""
                THEN sizeConfig.hookSize
                ELSE IF preset.hookSize # "" THEN preset.hookSize
                     ELSE "3.5mm",
   yarnWeight |-> IF sizeConfig # <<>> /\ sizeConfig.yarnWeight # ""
                  THEN sizeConfig.yarnWeight
                  ELSE IF preset.yarnWeight # "" THEN preset.yarnWeight
                       ELSE "worsted",
   skillLevel |-> IF preset.skillLevel # "" THEN preset.skillLevel
                  ELSE "intermediate",
   defaultEarShape |-> IF preset.defaultEarShape # ""
                       THEN preset.defaultEarShape ELSE "floppy"]

\* getPreset(breedId, size) for a breed that has a preset; size "" is an
\* omitted size argument
getPreset(breedId, size) ==
  PresetOf(BREED_PRESETS[breedId],
           SizeConfigOf(BREED_PRESETS[breedId].sizes,
                        IF size # "" THEN size ELSE "medium"))

\* ------------------------------------------------------------------------
\* Analyses and customizations the model draws its inputs from
\* ------------------------------------------------------------------------
Analysis(breed, primary, secondary, accent, bpa) ==
  [detectedBreed |-> breed,
   colors |-> [primary |-> primary, secondary |-> secondary,
               tertiary |-> "", accent |-> accent],
   bodyPartAnalysis |-> bpa,
   earShape |-> "floppy", tailType |-> "otter", buildType |-> "athletic",
   snoutLength |-> 30]
Bp(partName, primaryColor, crochetNotes) ==
  [partName |-> partName, primaryColor |-> primaryColor,
   crochetNotes |-> crochetNotes]

\* a default-style analysis: every part has the primary colour
AnaLab ==
  Analysis("labrador", "#C4A265", "#E8D5B0", "#1A1A1A",
           << Bp("head", "#C4A265", <<"Stuff firmly for a broad head.">>),
              Bp("ears", "#C4A265", <<"Leave unstuffed.">>) >>)
\* the analysis service returned no per-part analysis
AnaNoBp == Analysis("labrador", "#C4A265", "#E8D5B0", "#1A1A1A", <<>>)
\* per-part colours of their own, a nose part, no accent, no secondary
AnaParts ==
  Analysis("labrador", "#8B4513", "", "",
           << Bp("head", "#3B2F2F", <<"Dark mask.">>),
              Bp("ears", "#c4a265", <<>>),
              Bp("nose", "#000000", <<>>) >>)
\* a breed the vision service names but no preset exists for
AnaHusky ==
  Analysis("husky", "#FFFFFF", "#1A1A1A", "#1A1A1A",
           << Bp("head", "#FFFFFF", <<"Add a mask.">>) >>)

PaletteTwo ==
  << [colorKey |-> "primary", hexCode |-> "#8B4513",
      yarnName |-> <<"Chestnut">>],
     [colorKey |-> "secondary", hexCode |-> "#FFFFFF", yarnName |-> <<>>] >>


\* ------------------------------------------------------------------------
\* State
\* ------------------------------------------------------------------------
VARIABLES
  \* a caller compiling repeatedly with the same argument objects
  gAnalysis,        \* the analysis object passed to generatePattern
  gAnalysis0,       \* its value when the caller built it
  gCustomizations,  \* the customizations object passed to generatePattern
  gPreset,          \* the preset passed to generatePattern
  gResults,         \* the patterns returned so far, in call order
  \* a caller editing a pattern through the customizer
  patObjs,          \* CustomPattern objects, by object id
  custObjs,         \* PatternCustomizations objects
  genObjs,          \* GeneratedPattern objects (sections, instructions)
  anaObjs,          \* DogAnalysisResult objects
  edObjs,           \* editorState objects
  nextId,           \* next unused object id
  cur,              \* the pattern the caller holds (id), last one returned
  now,              \* the clock read by new Date()
  trail,            \* the calls made so far, latest last
  \* simplifyPattern applied to one section
  sInstructions,    \* the section's instruction list before the pass
  sSimplified,      \* the section's instruction list after the pass
  sDone,            \* the pass has run
  \* the store compiling for the wizard and the editor
  tSelected,        \* selectedBreeds
  tSize,            \* selectedSize, "" when null
  tHasImage,        \* uploadedImage or the pattern's dogPhotoUrl is set
  tAnalysis,        \* analysisResult, <<>> when null
  tPattern,         \* currentPattern, <<>> when null
  tError,           \* error, "" when null
  tCalls,           \* the compile calls made so far, latest last
  \* generatePatternPDF laying one pattern out
  dDoc,             \* the pattern's content as the layout sees it
  dS,               \* the State object: y, page, and what was drawn
  dPc,              \* the step generatePatternPDF is at
  dSec,             \* index of the next body-part section
  \* the store's asynchronous actions and the upload page
  aS,               \* store fields, IndexedDB contents and actions in flight
  uS                \* the upload page's state and its pending effects

gvars == <<gAnalysis, gAnalysis0, gCustomizations, gPreset, gResults>>
cvars == <<patObjs, custObjs, genObjs, anaObjs, edObjs, nextId, cur, now,
           trail>>
svars == <<sInstructions, sSimplified, sDone>>
tvars == <<tSelected, tSize, tHasImage, tAnalysis, tPattern, tError, tCalls>>
dvars == <<dDoc, dS, dPc, dSec>>
avars == <<aS, uS>>
vars == <<gAnalysis, gAnalysis0, gCustomizations, gPreset, gResults,
          patObjs, custObjs, genObjs, anaObjs, edObjs, nextId, cur, now,
          trail, sInstructions, sSimplified, sDone,
          tSelected, tSize, tHasImage, tAnalysis, tPattern, tError, tCalls,
          dDoc, dS, dPc, dSec, aS, uS>>

GIdle ==
  /\ gAnalysis = AnaLab
  /\ gAnalysis0 = AnaLab
  /\ gCustomizations = <<>>
  /\ gPreset = getPreset("labrador", "")
  /\ gResults = <<>>
SIdle ==
  /\ sInstructions = <<>>
  /\ sSimplified = <<>>
  /\ sDone = FALSE
TIdle ==
  /\ tSelected = <<>>
  /\ tSize = ""
  /\ tHasImage = FALSE
  /\ tAnalysis = <<>>
  /\ tPattern = <<>>
  /\ tError = ""
  /\ tCalls = <<>>
DIdle ==
  /\ dDoc = <<>>
  /\ dS = <<>>
  /\ dPc = "idle"
  /\ dSec = 0
AIdle ==
  /\ aS = <<>>
  /\ uS = <<>>
CIdle ==
  /\ patObjs = <<>>
  /\ custObjs = <<>>
  /\ genObjs = <<>>
  /\ anaObjs = <<>>
  /\ edObjs = <<>>
  /\ nextId = 1
  /\ cur = 0
  /\ now = 0
  /\ trail = <<>>

\* ------------------------------------------------------------------------
\* Compiling twice with the same argument objects
\* ------------------------------------------------------------------------
MaxCompiles == 2

GenAnalyses == {AnaLab, AnaNoBp, AnaParts, AnaHusky}
GenCustomizations ==
  { <<>>,
    [colorAssignments |-> PaletteTwo],
    [toggledFeatures |-> [ear |-> FALSE], difficultyLevel |-> "simplified",
     sizeMultiplier |-> 75],
    [difficultyLevel |-> "detailed",
     proportionAdjustments |-> [head |-> 150]] }
GenPresets ==
  {getPreset("labrador", ""), getPreset("corgi", "small"),
   getPreset("corgi", "")}

GenInit ==
  /\ gAnalysis \in GenAnalyses
  /\ gAnalysis0 = gAnalysis
  /\ gCustomizations \in GenCustomizations
  /\ gPreset \in GenPresets
  /\ gResults = <<>>
  /\ CIdle
  /\ SIdle
  /\ TIdle
  /\ DIdle
  /\ AIdle

CallGeneratePattern ==
  /\ Len(gResults) < MaxCompiles
  /\ LET r == generatePattern(gAnalysis, gPreset, gCustomizations)
     IN /\ gResults' = Append(gResults,
                              [customizations |-> r.customizations,
                               generatedPattern |-> r.generatedPattern,
                               materials |-> r.materials])
        /\ gAnalysis' = r.analysisAfter
  /\ UNCHANGED <<gAnalysis0, gCustomizations, gPreset>>
  /\ UNCHANGED cvars
  /\ UNCHANGED svars
  /\ UNCHANGED tvars
  /\ UNCHANGED dvars
  /\ UNCHANGED avars

GenNext == CallGeneratePattern
SpecGen == GenInit /\ [][GenNext]_vars

\* what C1 compares: per section its part and instruction texts, per yarn
\* its yardage, and the total
SectionTexts(gen) ==
  [k \in 1..Len(gen.sections) |->
     [part |-> gen.sections[k].bodyParts,
      name |-> gen.sections[k].name,
      texts |-> [i \in 1..Len(gen.sections[k].instructions) |->
                   gen.sections[k].instructions[i].instruction]]]
Yardages(materials) ==
  [perYarn |-> [k \in 1..Len(materials.yarns) |->
                  <<materials.yarns[k].colorName, materials.yarns[k].yardage>>],
   total |-> materials.totalYardageNeeded]

\* C1: two successive generatePattern calls on the same argument objects
\* return the same section order, the same instruction text in every
\* section and the same per-yarn and total yardage.
C1_Idempotent ==
  \A i, j \in 1..Len(gResults) :
    /\ SectionTexts(gResults[i].generatedPattern)
         = SectionTexts(gResults[j].generatedPattern)
    /\ Yardages(gResults[i].materials) = Yardages(gResults[j].materials)
\* the second compile ran on an analysis that had no bodyPartAnalysis at
\* the first call (it now reads the fallback the first call stored), and
\* the compiled pattern has sections and a seeded palette
C1_Witness ==
  /\ Len(gResults) = 2
  /\ gAnalysis0.bodyPartAnalysis = <<>>
  /\ gAnalysis.bodyPartAnalysis # <<>>
  /\ Len(gResults[2].generatedPattern.sections) >= 3
  /\ Len(gResults[2].materials.yarns) >= 3
  /\ gResults[1].generatedPattern.sections[1].notes
       # gResults[2].generatedPattern.sections[1].notes

\* C2: generatePattern leaves its analysis and customizations arguments
\* as they were.
C2_InputsUnchanged ==
  [][CallGeneratePattern =>
       /\ gAnalysis' = gAnalysis
       /\ gCustomizations' = gCustomizations]_vars


\* ------------------------------------------------------------------------
\* Customizer: the heap and the post-compile transforms
\* ------------------------------------------------------------------------
Put(f, k, v) == (k :> v) @@ f

\* the `{ ...pattern }` of every mutator: a new top-level object whose
\* fields hold the same object ids; its id is H.next
ShallowCopy(H, p) ==
  [H EXCEPT !.pat = Put(H.pat, H.next, H.pat[p]), !.next = H.next + 1]

\* the loop of simplifyPattern over one section's instructions;
\* hasLast is "lastInstruction !== null"
RECURSIVE SimplifyLoop(_, _, _, _, _, _)
SimplifyLoop(instructions, i, simplified, hasLast, lastInstruction, repeatCount) ==
  LET flushed ==
        IF ~hasLast THEN simplified
        ELSE IF repeatCount > 1
        THEN Append(simplified,
                    [lastInstruction EXCEPT
                       !.instruction = @ \o <<" [repeat for ",
                                              ToString(repeatCount),
                                              " rows]">>])
        ELSE Append(simplified, lastInstruction)
  IN
  IF i > Len(instructions) THEN flushed
  ELSE IF hasLast /\ lastInstruction.instruction = instructions[i].instruction
  THEN SimplifyLoop(instructions, i + 1, simplified, TRUE, lastInstruction,
                    repeatCount + 1)
  ELSE SimplifyLoop(instructions, i + 1, flushed, TRUE, instructions[i], 1)

\* a loop without the flush of the last run after the traversal
SimplifyInstructions_NoFlush(instructions) ==
  LET r == SimplifyLoop(instructions, 1, <<>>, FALSE, <<>>, 0)
  IN SubSeq(r, 1, Len(r) - 1)

SimplifyInstructions(instructions) ==
  SimplifyLoop(instructions, 1, <<>>, FALSE, <<>>, 0)

\* simplifyPattern(pattern): rewrites, in place, the sections of the
\* GeneratedPattern object the pattern refers to
simplifyPattern(H, p) ==
  LET g == H.pat[p].generatedPattern
  IN [H EXCEPT !.gen[g].sections =
        [k \in 1..Len(@) |->
           [@[k] EXCEPT !.instructions = SimplifyInstructions(@)]]]

AddDetailText(text) ==
  LET t1 == IF Includes(text, "inc")
            THEN text \o <<" - 2 stitches in the same stitch for smooth increases">>
            ELSE text
      t2 == IF Includes(t1, "dec")
            THEN t1 \o <<" - insert through 2 stitches and pull yarn through both for smooth decreases">>
            ELSE t1
  IN IF Includes(t2, "Magic ring")
     THEN t2 \o <<" - this creates a tight center, perfect for amigurumi">>
     ELSE t2

\* addDetailToPattern(pattern): appends, in place, to the instruction
\* objects of the GeneratedPattern object the pattern refers to
addDetailToPattern(H, p) ==
  LET g == H.pat[p].generatedPattern
  IN [H EXCEPT !.gen[g].sections =
        [k \in 1..Len(@) |->
           [@[k] EXCEPT !.instructions =
              [i \in 1..Len(@) |->
                 [@[i] EXCEPT !.instruction = AddDetailText(@)]]]]]

\* what generatePatternData takes from the compiled pattern
DataOf(full) ==
  [threw |-> FALSE,
   generatedPattern |-> full.generatedPattern,
   materials |-> full.materials,
   analysisAfter |-> full.analysisAfter]

\* generatePatternData(pattern): throws when the breed has no preset,
\* otherwise compiles; generatePattern stores the fallback
\* bodyPartAnalysis on the analysis object it is given
generatePatternData(H, p) ==
  IF ~HasPreset(H.pat[p].breedId) THEN [threw |-> TRUE]
  ELSE DataOf(generatePattern(H.ana[H.pat[p].analysisResult],
                              getPreset(H.pat[p].breedId, ""),
                              H.cust[H.pat[p].customizations]))

\* an assignment that replaces the compiled sections and keeps the
\* materials of the previous compile
AssignData_StaleMaterials(H, p, t, data) ==
  LET pt == H.pat[p]
      g == H.next
      hasEd == pt.editorState # 0
      e == IF hasEd THEN pt.editorState ELSE H.next + 1
  IN IF data.threw THEN [threw |-> TRUE, H |-> H]
     ELSE [threw |-> FALSE,
           H |-> [pat |-> [H.pat EXCEPT
                             ![p] = [pt EXCEPT
                                       !.generatedPattern = g,
                                       !.editorState = e]],
                  cust |-> H.cust,
                  gen |-> Put(H.gen, g, data.generatedPattern),
                  ana |-> [H.ana EXCEPT
                             ![pt.analysisResult] = data.analysisAfter],
                  ed |-> Put(H.ed, e, [hasUnsavedChanges |-> TRUE,
                                       lastEditedAt |-> t]),
                  next |-> IF hasEd THEN H.next + 1 ELSE H.next + 2]]

\* the assignments of regeneratePattern once generatePatternData has
\* returned data (or thrown): generatedPattern and materials are replaced,
\* editorState is written in place or created
AssignData(H, p, t, data) ==
  LET pt == H.pat[p]
      g == H.next
      hasEd == pt.editorState # 0
      e == IF hasEd THEN pt.editorState ELSE H.next + 1
  IN IF data.threw THEN [threw |-> TRUE, H |-> H]
     ELSE [threw |-> FALSE,
           H |-> [pat |-> [H.pat EXCEPT
                             ![p] = [pt EXCEPT
                                       !.generatedPattern = g,
                                       !.materials = data.materials,
                                       !.editorState = e]],
                  cust |-> H.cust,
                  gen |-> Put(H.gen, g, data.generatedPattern),
                  ana |-> [H.ana EXCEPT
                             ![pt.analysisResult] = data.analysisAfter],
                  ed |-> Put(H.ed, e, [hasUnsavedChanges |-> TRUE,
                                       lastEditedAt |-> t]),
                  next |-> IF hasEd THEN H.next + 1 ELSE H.next + 2]]

\* regeneratePattern(pattern) at time t: [threw, H]
regeneratePattern(H, p, t) == AssignData(H, p, t, generatePatternData(H, p))

\* ------------------------------------------------------------------------
\* Customizer: the mutators.  Each returns [threw, H, ret]: ret is the id
\* of the object the call returns when it does not throw.
\* ------------------------------------------------------------------------
\* the mutator returns the copy u, or the throw of regeneratePattern
\* propagates
Outcome(r, u) == [threw |-> r.threw, H |-> r.H, ret |-> u]

\* `updated.updatedAt = new Date()` on the copy, then regeneratePattern
Finish(H, u, t) ==
  Outcome(regeneratePattern([H EXCEPT !.pat[u].updatedAt = t], u, t), u)

updateColors(H, p, colorAssignments, t) ==
  LET H1 == ShallowCopy(H, p)
      u == H.next
      c == H1.pat[u].customizations
  IN Finish([H1 EXCEPT !.cust[c].colorAssignments = colorAssignments], u, t)

toggleFeature(H, p, featureName, enabled, t) ==
  LET H1 == ShallowCopy(H, p)
      u == H.next
      c == H1.pat[u].customizations
  IN Finish([H1 EXCEPT !.cust[c].toggledFeatures =
                          Put(@, featureName, enabled)], u, t)

\* a clamp with the lower limit only
ClampModifier_NoUpper(modifier) == Max(50, modifier)

\* Math.max(0.5, Math.min(2.0, modifier))
ClampModifier(modifier) == Max(50, Min(200, modifier))

adjustProportions(H, p, bodyPart, modifier, t) ==
  LET H1 == ShallowCopy(H, p)
      u == H.next
      c == H1.pat[u].customizations
  IN Finish([H1 EXCEPT !.cust[c].proportionAdjustments =
                          Put(@, bodyPart, ClampModifier(modifier))], u, t)

\* the in-place transform setDifficulty runs on the copy u before it
\* regenerates
DifficultyTransform(H, u, level) ==
  IF level = "simplified" THEN simplifyPattern(H, u)
  ELSE IF level = "detailed" THEN addDetailToPattern(H, u)
  ELSE H

setDifficulty(H, p, level, t) ==
  LET H1 == ShallowCopy(H, p)
      u == H.next
      c == H1.pat[u].customizations
  IN Finish(DifficultyTransform(
              [H1 EXCEPT !.cust[c].difficultyLevel = level], u, level),
            u, t)

\* the field-by-field merge of applyCustomizations (arrays and objects
\* are truthy when present; '' and 0 are not)
MergeColorAssignments(m, customizations) ==
  IF "colorAssignments" \in DOMAIN customizations
  THEN [m EXCEPT !.colorAssignments = customizations.colorAssignments]
  ELSE m
MergeToggledFeatures(m, customizations) ==
  IF "toggledFeatures" \in DOMAIN customizations
  THEN [m EXCEPT !.toggledFeatures = customizations.toggledFeatures @@ @]
  ELSE m
MergeProportionAdjustments(m, customizations) ==
  IF "proportionAdjustments" \in DOMAIN customizations
  THEN [m EXCEPT !.proportionAdjustments =
                   customizations.proportionAdjustments @@ @]
  ELSE m
MergeDifficultyLevel(m, customizations) ==
  IF Get(customizations, "difficultyLevel", "") # ""
  THEN [m EXCEPT !.difficultyLevel = customizations.difficultyLevel]
  ELSE m
MergeHookSizeOverride(m, customizations) ==
  IF Get(customizations, "hookSizeOverride", "") # ""
  THEN [hookSizeOverride |-> customizations.hookSizeOverride] @@ m
  ELSE m
MergeSizeMultiplier(m, customizations) ==
  IF Get(customizations, "sizeMultiplier", 0) # 0
  THEN [m EXCEPT !.sizeMultiplier = customizations.sizeMultiplier]
  ELSE m

MergeCustomizations(old, customizations) ==
  MergeSizeMultiplier(
    MergeHookSizeOverride(
      MergeDifficultyLevel(
        MergeProportionAdjustments(
          MergeToggledFeatures(
            MergeColorAssignments(old, customizations),
            customizations),
          customizations),
        customizations),
      customizations),
    customizations)

applyCustomizations(H, p, customizations, t) ==
  LET H1 == ShallowCopy(H, p)
      u == H.next
      c == H1.pat[u].customizations
  IN Finish([H1 EXCEPT !.cust[c] = MergeCustomizations(@, customizations)],
            u, t)

\* the store's updateCustomization(key, value) on currentPattern = p:
\* no clamp, no recompile
updateCustomization(H, p, key, value, t) ==
  LET H1 == ShallowCopy(H, p)
      u == H.next
      c == H1.pat[u].customizations
  IN [threw |-> FALSE,
      H |-> [H1 EXCEPT !.cust[c] = Put(@, key, value),
                       !.pat[u].updatedAt = t],
      ret |-> u]

\* ------------------------------------------------------------------------
\* Customizer: specification
\* ------------------------------------------------------------------------
HeapNow ==
  [pat |-> patObjs, cust |-> custObjs, gen |-> genObjs, ana |-> anaObjs,
   ed |-> edObjs, next |-> nextId]

\* the part names of a pattern's compiled sections, in section order
SectionParts(gen) ==
  [k \in 1..Len(gen.sections) |-> gen.sections[k].bodyParts[1]]

\* how the pattern the caller starts with was created (the store's
\* generateFromAnalysis): the analysis, the breed and size the preset was
\* looked up with, and the size multiplier of that size
CreationCases ==
  { [analysis |-> AnaLab, breed |-> "labrador", size |-> "",
     sizeMultiplier |-> 100],
    [analysis |-> AnaNoBp, breed |-> "labrador", size |-> "",
     sizeMultiplier |-> 100],
    [analysis |-> AnaHusky, breed |-> "labrador", size |-> "",
     sizeMultiplier |-> 100],
    [analysis |-> AnaLab, breed |-> "corgi", size |-> "small",
     sizeMultiplier |-> 75] }

Init ==
  /\ GIdle
  /\ SIdle
  /\ TIdle
  /\ DIdle
  /\ AIdle
  /\ \E cc \in CreationCases :
       LET r == generatePattern(cc.analysis, getPreset(cc.breed, cc.size),
                                [sizeMultiplier |-> cc.sizeMultiplier])
       IN /\ anaObjs = (1 :> r.analysisAfter)
          /\ custObjs = (2 :> r.customizations)
          /\ genObjs = (3 :> r.generatedPattern)
          /\ patObjs = (4 :> [breedId |-> r.breedId,
                              analysisResult |-> 1,
                              customizations |-> 2,
                              generatedPattern |-> 3,
                              materials |-> r.materials,
                              editorState |-> 0,
                              updatedAt |-> 0])
  /\ edObjs = <<>>
  /\ nextId = 5
  /\ cur = 4
  /\ now = 0
  /\ trail = <<>>

\* the call returns (or throws): the heap is as the call left it, the
\* caller holds the returned pattern, or still the old one after a throw
Return(res, op, key, enabled, modifier) ==
  /\ patObjs' = res.H.pat
  /\ custObjs' = res.H.cust
  /\ genObjs' = res.H.gen
  /\ anaObjs' = res.H.ana
  /\ edObjs' = res.H.ed
  /\ nextId' = res.H.next
  /\ cur' = IF res.threw THEN cur ELSE res.ret
  /\ now' = now + 1
  /\ trail' = Append(trail,
                     [op |-> op, key |-> key, enabled |-> enabled,
                      modifier |-> modifier, input |-> cur,
                      threw |-> res.threw,
                      partsBefore |->
                        SectionParts(
                          genObjs[patObjs[cur].generatedPattern]),
                      togglesBefore |->
                        custObjs[patObjs[cur].customizations].toggledFeatures])
  /\ UNCHANGED gvars
  /\ UNCHANGED svars
  /\ UNCHANGED tvars
  /\ UNCHANGED dvars
  /\ UNCHANGED avars

ToggleArgs == {<<"ear", FALSE>>, <<"ear", TRUE>>, <<"tail", FALSE>>}
ProportionArgs == {<<"head", 30>>, <<"head", 120>>, <<"ear", 250>>}
ColorArgs == {PaletteTwo, <<>>}
DifficultyArgs == {"simplified", "detailed", "standard"}
ApplyArgs ==
  { [sizeMultiplier |-> 300],
    [proportionAdjustments |-> [head |-> 10],
     toggledFeatures |-> [tail |-> FALSE],
     difficultyLevel |-> "detailed"] }

CallUpdateColors ==
  /\ now < MaxCalls
  /\ \E ca \in ColorArgs :
       Return(updateColors(HeapNow, cur, ca, now + 1),
              "updateColors", "", FALSE, 0)

CallToggleFeature ==
  /\ now < MaxCalls
  /\ \E a \in ToggleArgs :
       Return(toggleFeature(HeapNow, cur, a[1], a[2], now + 1),
              "toggleFeature", a[1], a[2], 0)

CallAdjustProportions ==
  /\ now < MaxCalls
  /\ \E a \in ProportionArgs :
       Return(adjustProportions(HeapNow, cur, a[1], a[2], now + 1),
              "adjustProportions", a[1], FALSE, a[2])

CallSetDifficulty ==
  /\ now < MaxCalls
  /\ \E level \in DifficultyArgs :
       Return(setDifficulty(HeapNow, cur, level, now + 1),
              "setDifficulty", level, FALSE, 0)

CallApplyCustomizations ==
  /\ now < MaxCalls
  /\ \E c \in ApplyArgs :
       Return(applyCustomizations(HeapNow, cur, c, now + 1),
              "applyCustomizations", "", FALSE, 0)

CallUpdateCustomization ==
  /\ now < MaxCalls
  /\ Return(updateCustomization(HeapNow, cur, "sizeMultiplier", 40, now + 1),
            "updateCustomization", "sizeMultiplier", FALSE, 40)

Next ==
  \/ CallUpdateColors
  \/ CallToggleFeature
  \/ CallAdjustProportions
  \/ CallSetDifficulty
  \/ CallApplyCustomizations
  \/ CallUpdateCustomization

Spec == Init /\ [][Next]_vars


\* ------------------------------------------------------------------------
\* simplifyPattern on one section
\* ------------------------------------------------------------------------
\* instruction texts the section is built from; the third already ends
\* the way an annotated "Sc around" does
SimplifyTexts ==
  { <<"Rnd: ", "Sc around">>,
    <<"Rnd: ", "(Sc 1, inc) x 6">>,
    <<"Rnd: ", "Sc around", " [repeat for ", "2", " rows]">> }

RECURSIVE SeqsUpTo(_, _)
SeqsUpTo(S, n) ==
  IF n = 0 THEN {<<>>}
  ELSE LET shorter == SeqsUpTo(S, n - 1)
       IN shorter \cup {Append(q, x) : q \in {r \in shorter : Len(r) = n - 1},
                                       x \in S}

SimplifyInit ==
  /\ GIdle
  /\ CIdle
  /\ \E texts \in SeqsUpTo(SimplifyTexts, MaxLen) :
       sInstructions = [i \in 1..Len(texts) |->
                          [rowNumber |-> i, instruction |-> texts[i],
                           notes |-> <<>>]]
  /\ sSimplified = <<>>
  /\ sDone = FALSE
  /\ TIdle
  /\ DIdle
  /\ AIdle

RunSimplify ==
  /\ ~sDone
  /\ sSimplified' = SimplifyInstructions(sInstructions)
  /\ sDone' = TRUE
  /\ UNCHANGED sInstructions
  /\ UNCHANGED gvars
  /\ UNCHANGED cvars
  /\ UNCHANGED tvars
  /\ UNCHANGED dvars
  /\ UNCHANGED avars

SimplifyNext == RunSimplify
SpecSimplify == SimplifyInit /\ [][SimplifyNext]_vars


\* ------------------------------------------------------------------------
\* Properties of the customizer
\* ------------------------------------------------------------------------
Last(q) == q[Len(q)]

\* what a caller holding pattern object p sees of it
PatternView(pat, cust, gen, p) ==
  [customizations |-> cust[pat[p].customizations],
   sections |-> gen[pat[p].generatedPattern].sections,
   materials |-> pat[p].materials,
   updatedAt |-> pat[p].updatedAt]

CustomizerOps ==
  {"updateColors", "toggleFeature", "adjustProportions", "setDifficulty",
   "applyCustomizations"}

\* C3: every customizer mutator returns a new pattern and leaves the
\* pattern object passed in unchanged (customizations, compiled sections
\* and instruction texts, materials).
C3_CopyOnWrite ==
  [][(trail' # trail /\ Last(trail').op \in CustomizerOps) =>
       /\ (~Last(trail').threw => cur' # cur)
       /\ PatternView(patObjs', custObjs', genObjs', cur)
            = PatternView(patObjs, custObjs, genObjs, cur)]_vars

\* C4: when a customizer mutator throws because the breed has no preset,
\* the pattern passed in is exactly as it was before the call.
C4_FailedCallUntouched ==
  [][(trail' # trail /\ Last(trail').op \in CustomizerOps
      /\ Last(trail').threw) =>
       PatternView(patObjs', custObjs', genObjs', cur)
         = PatternView(patObjs, custObjs, genObjs, cur)]_vars

\* C5: the pattern returned by updateColors, toggleFeature,
\* adjustProportions or applyCustomizations carries the sections and
\* materials of generatePattern(pattern.analysisResult,
\* getPreset(pattern.breedId), customizations after the update).
C5_FullRecompile ==
  (/\ trail # <<>>
   /\ Last(trail).op \in {"updateColors", "toggleFeature",
                          "adjustProportions", "applyCustomizations"}
   /\ ~Last(trail).threw)
  => LET pt == patObjs[cur]
         full == generatePattern(anaObjs[pt.analysisResult],
                                 getPreset(pt.breedId, ""),
                                 custObjs[pt.customizations])
     IN /\ genObjs[pt.generatedPattern].sections
             = full.generatedPattern.sections
        /\ pt.materials = full.materials
\* a toggle that removed the Ears section and changed the yardage bill
C5_Witness ==
  /\ trail # <<>>
  /\ Last(trail).op = "toggleFeature"
  /\ Last(trail).key = "ear"
  /\ ~Last(trail).enabled
  /\ ~Last(trail).threw
  /\ "ear" \in {Last(trail).partsBefore[k] :
                  k \in 1..Len(Last(trail).partsBefore)}
  /\ SectionParts(genObjs[patObjs[cur].generatedPattern])
       # Last(trail).partsBefore
  /\ patObjs[cur].materials # patObjs[Last(trail).input].materials

\* C6: the value adjustProportions stores for the part is 0.5 when
\* m < 0.5, 2.0 when m > 2.0 and m otherwise, so it lies in [0.5, 2.0].
C6_ClampStored ==
  (trail # <<>> /\ Last(trail).op = "adjustProportions")
  => LET m == Last(trail).modifier
         c == custObjs[patObjs[Last(trail).input].customizations]
         v == c.proportionAdjustments[Last(trail).key]
     IN /\ Last(trail).key \in DOMAIN c.proportionAdjustments
        /\ 50 <= v /\ v <= 200
        /\ (m < 50 => v = 50)
        /\ (m > 200 => v = 200)
        /\ (50 <= m /\ m <= 200 => v = m)
\* a modifier above the range was passed and 2.0 was stored
C6_Witness ==
  /\ trail # <<>>
  /\ Last(trail).op = "adjustProportions"
  /\ Last(trail).modifier > 200
  /\ custObjs[patObjs[cur].customizations]
       .proportionAdjustments[Last(trail).key] = 200

\* C7: after any sequence of customization mutations every stored
\* proportion adjustment and the stored sizeMultiplier lie in [0.5, 2.0].
C7_AllClamped ==
  cur # 0
  => LET c == custObjs[patObjs[cur].customizations]
     IN /\ 50 <= c.sizeMultiplier /\ c.sizeMultiplier <= 200
        /\ \A k \in DOMAIN c.proportionAdjustments :
             50 <= c.proportionAdjustments[k]
             /\ c.proportionAdjustments[k] <= 200

\* position of a part in the canonical order head, body, frontLeg,
\* backLeg, ear, tail, snout, nose, eyePatch
CanonicalIndex(part) ==
  CHOOSE k \in 1..Len(bodyPartOrder) : bodyPartOrder[k] = part
\* parts is exactly the preset's parts not toggled false, in canonical
\* order
CanonicalSections(parts, preset, toggles) ==
  /\ {parts[k] : k \in 1..Len(parts)}
       = {q \in DOMAIN preset.bodyParts :
            ~(q \in DOMAIN toggles /\ toggles[q] = FALSE)}
  /\ \A i, j \in 1..Len(parts) :
       i < j => CanonicalIndex(parts[i]) < CanonicalIndex(parts[j])

C9_RunsMerged ==
  (/\ trail # <<>>
   /\ Last(trail).op = "setDifficulty"
   /\ Last(trail).key = "simplified"
   /\ ~Last(trail).threw)
  => \A k \in 1..Len(genObjs[patObjs[cur].generatedPattern].sections) :
       LET ins == genObjs[patObjs[cur].generatedPattern].sections[k]
                    .instructions
       IN \A i \in 1..(Len(ins) - 1) :
            ins[i].instruction # ins[i + 1].instruction

\* ------------------------------------------------------------------------
\* Properties of the simplify pass
\* ------------------------------------------------------------------------
\* first positions of the maximal runs of equal instruction text
RunStarts(ins) ==
  {i \in 1..Len(ins) :
     i = 1 \/ ins[i].instruction # ins[i - 1].instruction}
\* length of the maximal run starting at i
RunLength(ins, i) ==
  LET later == {j \in RunStarts(ins) : j > i} \cup {Len(ins) + 1}
  IN (CHOOSE j \in later : \A l \in later : j <= l) - i

\* C10: each maximal run of k >= 2 equal texts becomes one entry, the
\* text followed by "[repeat for k rows]"; a run of length 1 is kept
\* unchanged; the runs keep their order.
C10_RunLengthEncoding ==
  sDone
  => /\ Len(sSimplified) = Cardinality(RunStarts(sInstructions))
     /\ \A i \in RunStarts(sInstructions) :
          LET r == Cardinality({j \in RunStarts(sInstructions) : j <= i})
              k == RunLength(sInstructions, i)
          IN IF k >= 2
             THEN /\ sSimplified[r].instruction
                       = sInstructions[i].instruction
                         \o <<" [repeat for ", ToString(k), " rows]">>
                  /\ sSimplified[r].rowNumber = sInstructions[i].rowNumber
             ELSE sSimplified[r] = sInstructions[i]
\* [A, A, A, B] became [A "[repeat for 3 rows]", B]
C10_Witness ==
  /\ sDone
  /\ [i \in 1..Len(sInstructions) |-> sInstructions[i].instruction]
       = << <<"Rnd: ", "Sc around">>, <<"Rnd: ", "Sc around">>,
            <<"Rnd: ", "Sc around">>, <<"Rnd: ", "(Sc 1, inc) x 6">> >>
  /\ [i \in 1..Len(sSimplified) |-> sSimplified[i].instruction]
       = << <<"Rnd: ", "Sc around", " [repeat for ", "3", " rows]">>,
            <<"Rnd: ", "(Sc 1, inc) x 6">> >>

\* ------------------------------------------------------------------------
\* Properties of the detailed difficulty
\* ------------------------------------------------------------------------
InvisibleDecrease ==
  " -- insert hook through front loops of next 2 stitches, yarn over and pull through all loops (invisible decrease)"

\* how many times the text has the invisible-decrease clarification
Clarifications(text) ==
  Cardinality({i \in 1..Len(text) : text[i] = InvisibleDecrease})

\* every instruction of the compiled pattern gen that contains "dec" has
\* the clarification exactly once
DetailedOnce(gen) ==
  \A k \in 1..Len(gen.sections) :
    \A i \in 1..Len(gen.sections[k].instructions) :
      Includes(gen.sections[k].instructions[i].instruction, "dec")
        => Clarifications(gen.sections[k].instructions[i].instruction) = 1

\* C11: in a pattern returned with difficulty 'detailed' -- by a compile
\* with difficultyLevel 'detailed' (applyCustomizations, or any mutator
\* on a detailed pattern) or by setDifficulty(pattern, 'detailed') called
\* once or several times in a row -- every instruction containing "dec"
\* has the invisible-decrease clarification exactly once.
C11_DetailedDecOnce ==
  (/\ trail # <<>>
   /\ Last(trail).op \in CustomizerOps
   /\ ~Last(trail).threw
   /\ custObjs[patObjs[cur].customizations].difficultyLevel = "detailed")
  => DetailedOnce(genObjs[patObjs[cur].generatedPattern])
\* setDifficulty 'detailed' was called twice in a row and the Head section
\* of the pattern returned has its decrease row with the clarification
C11_Witness ==
  /\ Len(trail) >= 2
  /\ trail[Len(trail) - 1].op = "setDifficulty"
  /\ trail[Len(trail) - 1].key = "detailed"
  /\ ~trail[Len(trail) - 1].threw
  /\ Last(trail).op = "setDifficulty"
  /\ Last(trail).key = "detailed"
  /\ ~Last(trail).threw
  /\ \E i \in 1..Len(genObjs[patObjs[cur].generatedPattern].sections[1]
                       .instructions) :
       LET text == genObjs[patObjs[cur].generatedPattern].sections[1]
                     .instructions[i].instruction
       IN Includes(text, "dec") /\ Clarifications(text) = 1

\* ------------------------------------------------------------------------
\* Compiling presets of a single body part
\* ------------------------------------------------------------------------
\* zone bounds tried: startRow in 1..MaxRow, endRow in 0..MaxRow + 1
MaxRow == 6

PartNames == {"head", "ear"}
PartRows == {<<>>, RowsEar, RowsLeg, RowsHead}
PartZones ==
  {<<>>, <<Zone(1, 2, "secondary"), Zone(3, 3, "accent")>>}
  \cup {<<Zone(s, e, "secondary")>> : s \in 1..MaxRow, e \in 0..(MaxRow + 1)}
PartPreset(partName, part) ==
  [bodyParts |-> (partName :> part),
   hookSize |-> "3.5mm", yarnWeight |-> "worsted",
   skillLevel |-> "beginner", defaultEarShape |-> "floppy"]
PartPresets ==
  {PartPreset(p, Part(q, rows, zones, <<>>)) :
     p \in PartNames, q \in {1, 2}, rows \in PartRows, zones \in PartZones}
PartCustomizations ==
  { <<>>,
    [toggledFeatures |-> [head |-> FALSE, ear |-> FALSE]],
    [toggledFeatures |-> [head |-> TRUE], sizeMultiplier |-> 150],
    [difficultyLevel |-> "detailed", colorAssignments |-> PaletteTwo] }

PartInit ==
  /\ gAnalysis = AnaLab
  /\ gAnalysis0 = gAnalysis
  /\ gCustomizations \in PartCustomizations
  /\ gPreset \in PartPresets
  /\ gResults = <<>>
  /\ CIdle
  /\ SIdle
  /\ TIdle
  /\ DIdle
  /\ AIdle

SpecPart == PartInit /\ [][GenNext]_vars

\* the one part of the preset compiled, its name and the compile that ran
ThePartName == CHOOSE p \in DOMAIN gPreset.bodyParts : TRUE
ThePart == gPreset.bodyParts[ThePartName]
Compiled == gResults # <<>>
TheResult == gResults[1]
PartEnabled ==
  Get(TheResult.customizations.toggledFeatures, ThePartName, TRUE) # FALSE
TheSizeKey == getSizeKey(TheResult.customizations.sizeMultiplier)

\* the part has a single colour zone, from its first row to its last
SingleZoneSpanning ==
  /\ Len(ThePart.colorZones) = 1
  /\ Len(ThePart.rows) > 0
  /\ ThePart.colorZones[1].startRow = 1
  /\ ThePart.colorZones[1].endRow = Len(ThePart.rows)
\* baseYardage * quantity of the part
TotalPartYardage ==
  YARDAGE_BY_SIZE[TheSizeKey][ThePartName] * QuantityOf(ThePart)
\* yardagePerColor[key] when the accumulation loop of the compile is over
Attributed(key) ==
  YardagePerColor(gPreset, TheResult.customizations,
                  YARDAGE_BY_SIZE[TheSizeKey], key, 1)

\* C12: for an enabled part with a single colour zone spanning all of its
\* rows, the yardage attributed to the zone's colour key is exactly the
\* part's yardage (base yardage x quantity), and the yarn of that key is
\* sized from it, also when the rows end in rows with stitchCount 0.
C12_SingleZoneFull ==
  (Compiled /\ PartEnabled /\ SingleZoneSpanning)
  => /\ Attributed(ThePart.colorZones[1].colorKey).n
          = TotalPartYardage * Attributed(ThePart.colorZones[1].colorKey).d
     /\ \A k \in 1..Len(TheResult.materials.yarns) :
          TheResult.materials.yarns[k].colorName
              = ThePart.colorZones[1].colorKey
          => TheResult.materials.yarns[k].yardage
               = YarnYardage(RInt(TotalPartYardage),
                             ThePart.colorZones[1].colorKey)
\* a compiled part whose single zone spans rows without a terminal row
C12_NoTerminalCase ==
  /\ Compiled /\ PartEnabled /\ SingleZoneSpanning
  /\ \A i \in 1..Len(ThePart.rows) : ThePart.rows[i].stitchCount > 0
  /\ Attributed("secondary").n = TotalPartYardage * Attributed("secondary").d

\* C19: every yarn of the materials list, one per resolved ColorAssignment,
\* has a yardage of at least 3, whatever the preset's colour zones (endRow
\* before startRow or beyond the part's rows included) and the toggle map.
C19_YardageFloor ==
  \A c \in 1..Len(gResults) :
    \A k \in 1..Len(gResults[c].materials.yarns) :
      gResults[c].materials.yarns[k].yardage >= 3
\* a compile of an enabled part whose zone ends before it starts, so that
\* a negative yardage was accumulated for the zone's key, with its yarn at 3
C19_Witness ==
  /\ Compiled /\ PartEnabled
  /\ Len(ThePart.colorZones) = 1
  /\ ThePart.colorZones[1].endRow < ThePart.colorZones[1].startRow - 1
  /\ Attributed(ThePart.colorZones[1].colorKey).n < 0
  /\ \E k \in 1..Len(TheResult.materials.yarns) :
       /\ TheResult.materials.yarns[k].colorName
            = ThePart.colorZones[1].colorKey
       /\ TheResult.materials.yarns[k].yardage = 3

\* the section compiled for the part (the preset has one part)
TheSection == TheResult.generatedPattern.sections[1]

ContainsSeq(text, sub) ==
  \E k \in 0..(Len(text) - Len(sub)) : SubSeq(text, k + 1, k + Len(sub)) = sub
\* the compile ran with multiplier 1.0, no colour zones, standard difficulty
PassthroughCase ==
  /\ Compiled /\ PartEnabled
  /\ CombinedMultiplier(ThePartName, TheResult.customizations) = 10000
  /\ ThePart.colorZones = <<>>
  /\ TheResult.customizations.difficultyLevel = "standard"
\* the instruction carries the row's number, its text and its stitch count
CarriesRow(ins, row) ==
  /\ ins.rowNumber = row.rowNumber
  /\ ContainsSeq(ins.instruction, row.instructions)
  /\ row.stitchCount > 0
     => ContainsSeq(ins.instruction,
                    <<" [", ToString(row.stitchCount), " sts]">>)

\* C18: with multiplier 1.0, no colour zones and standard difficulty the
\* interpreter emits exactly one instruction per template row, in order,
\* each carrying the row's text and stitch count; only the first row gets
\* the starting-colour prefix in front of its text.
C18_Passthrough ==
  PassthroughCase
  => /\ Len(TheSection.instructions) = Len(ThePart.rows)
     /\ \A i \in 1..Len(ThePart.rows) :
          /\ i <= Len(TheSection.instructions)
          /\ CarriesRow(TheSection.instructions[i], ThePart.rows[i])
\* the case where the passthrough holds: no decrease row, no terminal row
C18_PlainRowsCase ==
  /\ PassthroughCase
  /\ Len(ThePart.rows) > 0
  /\ Len(TheSection.instructions) = Len(ThePart.rows)
  /\ \A i \in 1..Len(ThePart.rows) :
       CarriesRow(TheSection.instructions[i], ThePart.rows[i])

\* position in the output of the entry of template row i, given the index
\* d of the first decrease row (the reminder, if any, sits right before it)
EntryIndex(i, d) == IF d > 1 /\ i >= d THEN i + 1 ELSE i
\* what the output entry e holds for template row `row` at index i
RowCarried(e, row, i) ==
  /\ e.rowNumber = row.rowNumber
  /\ IF isFinalRow(row.stitchCount, row.instructions)
     THEN e.instruction = FastenOffText
     ELSE /\ ContainsSeq(e.instruction, row.instructions)
          /\ ContainsSeq(e.instruction,
                         <<" [", ToString(row.stitchCount), " sts]">>)
          /\ (i = 1) = (Head(Tail(Tail(Tail(e.instruction)))) = "With ")
\* the output for the rows, with the reminder before decrease row d
RowsCarried(ins, rows, d) ==
  /\ Len(ins) = Len(rows) + (IF d > 1 THEN 1 ELSE 0)
  /\ \A i \in 1..Len(rows) : RowCarried(ins[EntryIndex(i, d)], rows[i], i)
  /\ d > 1 => /\ ins[d].rowNumber = 0
              /\ ins[d].notes = <<"Reminder">>

\* C18 (amended): with multiplier 1.0, no colour zones and standard
\* difficulty the interpreter emits one instruction per template row, in
\* order, plus one reminder right before the first decrease row when that
\* row is not the first; a non-terminal row's instruction carries the row's
\* text and stitch count unchanged, with the starting-colour prefix on the
\* first row only; a terminal row carries the standard fasten-off text.
C18_PassthroughButTerminal ==
  PassthroughCase
  => RowsCarried(TheSection.instructions, ThePart.rows,
                 DecreaseStartIdx(ThePart.rows))
\* a passthrough compile of rows with a decrease row and a terminal row
C18_Witness ==
  /\ PassthroughCase
  /\ DecreaseStartIdx(ThePart.rows) > 1
  /\ \E i \in 1..Len(ThePart.rows) : ThePart.rows[i].stitchCount = 0
  /\ Len(TheSection.instructions) = Len(ThePart.rows) + 1
  /\ \E i \in 4..Len(ThePart.rows) :
       /\ ThePart.rows[i].stitchCount > 0
       /\ RowCarried(TheSection.instructions[EntryIndex(i, DecreaseStartIdx(ThePart.rows))],
                     ThePart.rows[i], i)

\* ------------------------------------------------------------------------
\* PDF layout: the State object and the page primitives.  Lengths are in
\* tenths of a millimetre.  A State is [y, page, docPage, log, threw]:
\* docPage is the page of the jsPDF document that drawing goes to, log
\* lists what was drawn and each ensureSpace call, in order.
\* ------------------------------------------------------------------------
PAGE_H == 2970
MT == 180
MB == 200
HEADER_H == 140
CONTENT_TOP == MT + HEADER_H
CONTENT_BOTTOM == PAGE_H - MB

\* one entry of the log: a draw at height y, or a call ensureSpace(s, h)
\* made at cursor y, for the block it belongs to
Logged(s, ev, block, y, h, num) ==
  [s EXCEPT !.log = Append(@, [ev |-> ev, block |-> block,
                               page |-> s.docPage, y |-> y, h |-> h,
                               num |-> num])]
Draw(s, block, y, h) == Logged(s, "draw", block, y, h, 0)
DrawHere(s, block) == Draw(s, block, s.y, 0)
Adv(s, dy) == [s EXCEPT !.y = @ + dy]

\* the title and the brand, right-aligned at the top margin
addHeader(s) == Logged(s, "header", <<"page", s.page, 0>>, MT, 0, 0)
\* the brand line and String(page) at PAGE_H - 10
addFooter(s) == Logged(s, "footer", <<"page", s.page, 0>>, PAGE_H - 100, 0, s.page)

\* a variant that leaves the cursor where it was
newPage_KeepsY(s) ==
  addHeader([addFooter(s) EXCEPT !.docPage = @ + 1, !.page = @ + 1])
\* a variant that does not draw the footer of the page it leaves
newPage_NoFooter(s) ==
  addHeader([s EXCEPT !.docPage = @ + 1, !.page = @ + 1,
                      !.y = CONTENT_TOP])

\* addFooter, doc.addPage(), page++, y = CONTENT_TOP, addHeader
newPage(s) ==
  addHeader([addFooter(s) EXCEPT !.docPage = @ + 1, !.page = @ + 1,
                                 !.y = CONTENT_TOP])

ensureSpace(s, h) == IF s.y + h > CONTENT_BOTTOM THEN newPage(s) ELSE s

\* the call `s = ensureSpace(s, h)` made while rendering block
Ensure(s, h, block) ==
  ensureSpace(Logged(s, "ensure", block, s.y, h, 0), h)

\* n lines drawn one under the other from the cursor, dy apart, the cursor
\* moving with them (in this and the loops below nothing more is drawn
\* once an exception is on its way up)
RECURSIVE DrawLines(_, _, _, _)
DrawLines(s, block, n, dy) ==
  IF n = 0 \/ s.threw THEN s
  ELSE DrawLines(Adv(DrawHere(s, block), dy), block, n - 1, dy)

\* n lines drawn at y, y + dy, ... with the cursor left in place
Stacked(s, block, n, dy) ==
  [s EXCEPT !.log = @ \o [i \in 1..n |->
                            [ev |-> "draw", block |-> block,
                             page |-> s.docPage, y |-> s.y + (i - 1) * dy,
                             h |-> 0, num |-> 0]]]

\* n lines, each after its own ensureSpace(s, need)
RECURSIVE EnsuredLines(_, _, _, _, _)
EnsuredLines(s, block, n, need, dy) ==
  IF n = 0 \/ s.threw THEN s
  ELSE EnsuredLines(Adv(DrawHere(Ensure(s, need, block), block), dy),
                    block, n - 1, need, dy)

\* the one-line items i..n of a list, each a block of its own
RECURSIVE EnsuredItems(_, _, _, _, _, _)
EnsuredItems(s, kind, i, n, need, dy) ==
  IF i > n \/ s.threw THEN s
  ELSE EnsuredItems(Adv(DrawHere(Ensure(s, need, <<kind, i, 0>>),
                                 <<kind, i, 0>>), dy),
                    kind, i + 1, n, need, dy)

\* sectionHeader(s, num, name), then s.y += dy
HeaderAt(s, num, dy) == Adv(DrawHere(s, <<"sectionHeader", num, 0>>), dy)

\* ------------------------------------------------------------------------
\* PDF layout: the pages.  The pattern is given by what the layout reads of
\* it: item counts, and per text the number of lines splitTextToSize wraps
\* it into.
\* ------------------------------------------------------------------------
\* coverPage draws at positions of its own and leaves the cursor alone
coverPage(s) == Draw(s, <<"cover", 0, 0>>, 700, 0)

\* title and subtitle of the preview page
PreviewTitle(s) ==
  Adv(DrawHere(Adv(DrawHere(s, <<"previewTitle", 0, 0>>), 60),
               <<"previewSubtitle", 0, 0>>), 100)

\* a variant without the try/catch around doc.addImage
EmbedImage_NoCatch(s, ok) ==
  IF ok THEN Adv(Draw(s, <<"image", 0, 0>>, s.y, 1500), 1580)
  ELSE [s EXCEPT !.threw = TRUE]

\* the try block around doc.addImage and its catch: the image at 120 x 150
\* mm, or the placeholder line
EmbedImage(s, ok) ==
  IF ok THEN Adv(Draw(s, <<"image", 0, 0>>, s.y, 1500), 1580)
  ELSE Adv(Draw(s, <<"placeholder", 0, 0>>, s.y + 400, 0), 500)

\* the colour reference rows of the body parts i.. of the analysis; bpa[i]
\* is the number of lines the part's markings wrap into
RECURSIVE BpRows(_, _, _)
BpRows(s, bpa, i) ==
  IF i > Len(bpa) \/ s.threw THEN s
  ELSE BpRows(Adv(EnsuredLines(Adv(DrawHere(Ensure(s, 140,
                                                   <<"colorRef", i, 0>>),
                                            <<"colorRef", i, 0>>), 50),
                               <<"colorRef", i, 0>>, bpa[i], 50, 40), 20),
              bpa, i + 1)

PreviewReference(s, bpa) ==
  IF Len(bpa) = 0 THEN s
  ELSE BpRows(Adv(DrawHere(Ensure(s, 200, <<"refHeading", 0, 0>>),
                           <<"refHeading", 0, 0>>), 80), bpa, 1)

\* the rest of previewImagePage once the image step is over; nothing more
\* is drawn when it threw
AfterImage(s, bpa) == IF s.threw THEN s ELSE PreviewReference(s, bpa)

previewImagePage(s, doc, ok) ==
  IF ~doc.hasPreview THEN s
  ELSE AfterImage(EmbedImage(PreviewTitle(newPage(s)), ok), doc.bpa)

\* header, hook line
MaterialsHead(s) ==
  Adv(DrawHere(HeaderAt(s, 1, 140), <<"hook", 0, 0>>), 80)
\* yarn rows, notions, stuffing, additional supplies
MaterialsItems(s, doc) ==
  EnsuredItems(
    EnsuredItems(
      EnsuredItems(
        Adv(EnsuredItems(s, "yarnRow", 1, doc.yarns, 100, 70), 20),
        "notion", 1, doc.notions, 80, 70),
      "stuffing", 1, 1, 80, 70),
    "supply", 1, doc.supplies, 80, 70)
\* separator, total yardage line, gap before the blurb
MaterialsTotal(s) ==
  Adv(DrawHere(Adv(DrawHere(Adv(s, 40), <<"separator", 0, 0>>), 80),
               <<"total", 0, 0>>), 160)

materialsPage(s, doc) ==
  EnsuredLines(MaterialsTotal(MaterialsItems(MaterialsHead(newPage(s)), doc)),
               <<"blurb", 0, 0>>, doc.blurbLines, 60, 50)

\* the box, its title and its lines, once the space is ensured
TipBoxBody(s, k, lines) ==
  Adv(DrawLines(Adv(DrawHere(Adv(Draw(s, <<"tip", k, 0>>, s.y,
                                      140 + lines * 45), 70),
                             <<"tip", k, 0>>), 60),
                <<"tip", k, 0>>, lines, 45), 20)
drawTipBox(s, k, lines) ==
  TipBoxBody(Ensure(s, 140 + lines * 45 + 40, <<"tip", k, 0>>), k, lines)

\* the 21 entries of getAbbreviations()
AbbreviationCount == 21

abbreviationsSection(s, doc) ==
  drawTipBox(
    Adv(drawTipBox(
          Ensure(Adv(EnsuredItems(HeaderAt(newPage(s), 2, 140), "abbr", 1,
                                  AbbreviationCount, 70, 60), 80),
                 500, <<"tips", 0, 0>>),
          1, doc.tipLines[1]), 60),
    2, doc.tipLines[2])

\* the AI crochet notes box of section k: ai.noteLines lines of notes and
\* ai.markLines lines of markings; boxH counts the note lines only
AiBoxLines(s, k, ai) ==
  Adv(IF ai.markLines > 0
      THEN DrawLines(Adv(DrawLines(s, <<"aiNotes", k, 0>>, ai.noteLines, 45),
                         10),
                     <<"aiNotes", k, 0>>, ai.markLines, 40)
      ELSE DrawLines(s, <<"aiNotes", k, 0>>, ai.noteLines, 45),
      60)
AiBoxBody(s, k, ai) ==
  AiBoxLines(Adv(DrawHere(Adv(Draw(s, <<"aiNotes", k, 0>>, s.y,
                                   140 + ai.noteLines * 45), 70),
                          <<"aiNotes", k, 0>>), 50),
             k, ai)
AiBox(s, k, ai) ==
  IF ai = <<>> THEN s
  ELSE AiBoxBody(Ensure(s, 140 + ai.noteLines * 45 + 40, <<"aiNotes", k, 0>>),
                 k, ai)

\* the rows i.. of section k; rows[i] is the number of lines the row's
\* text wraps into
RowBody(s, block, lines) ==
  Adv(Stacked(DrawHere(s, block), block, lines, 50), lines * 50 + 15)
RECURSIVE InstructionRows(_, _, _, _)
InstructionRows(s, k, rows, i) ==
  IF i > Len(rows) \/ s.threw THEN s
  ELSE InstructionRows(
         RowBody(Ensure(s, rows[i] * 50 + 30, <<"instruction", k, i>>),
                 <<"instruction", k, i>>, rows[i]),
         k, rows, i + 1)

\* the section's finishing notes, wrapped into noteLines lines
SectionNotesPara(s, k, noteLines) ==
  IF noteLines = 0 THEN s
  ELSE EnsuredLines(Ensure(Adv(s, 50), 150, <<"notes", k, 0>>),
                    <<"notes", k, 0>>, noteLines, 60, 50)
DifficultyNotes(s, k, has) ==
  IF ~has THEN s
  ELSE Adv(DrawHere(Ensure(Adv(s, 30), 120, <<"difficulty", k, 0>>),
                    <<"difficulty", k, 0>>), 60)

\* patternSection for the k-th section, numbered k + 2
patternSection(s, sec, k) ==
  DifficultyNotes(
    SectionNotesPara(
      InstructionRows(
        Adv(DrawHere(AiBox(HeaderAt(newPage(s), k + 2, 100), k, sec.ai),
                     <<"subtitle", k, 0>>), 100),
        k, sec.rows, 1),
      k, sec.noteLines),
    k, sec.difficultyNotes)

\* the steps i.. of the assembly page; steps[i] is the step's line count
StepBody(s, block, lines) ==
  Adv(Stacked(DrawHere(s, block), block, lines, 55), lines * 55 + 40)
RECURSIVE AssemblySteps(_, _, _)
AssemblySteps(s, steps, i) ==
  IF i > Len(steps) \/ s.threw THEN s
  ELSE AssemblySteps(
         StepBody(Ensure(s, steps[i] * 55 + 40, <<"step", i, 0>>),
                  <<"step", i, 0>>, steps[i]),
         steps, i + 1)
assemblyPage(s, steps, num) ==
  AssemblySteps(HeaderAt(newPage(s), num, 140), steps, 1)

\* notesSection: the header after ensureSpace(s, 50), then the notes line
\* by line
notesSection(s, lines, num) ==
  EnsuredLines(HeaderAt(Ensure(Adv(s, 100), 500, <<"sectionHeader", num, 0>>),
                        num, 120),
               <<"notes", 0, 0>>, lines, 70, 55)

\* ------------------------------------------------------------------------
\* generatePatternPDF, one page function per step
\* ------------------------------------------------------------------------
PdfSection(ai, rows, noteLines, difficultyNotes) ==
  [ai |-> ai, rows |-> rows, noteLines |-> noteLines,
   difficultyNotes |-> difficultyNotes]
PdfDoc(hasPreview, bpa, yarns, sections, assembly, notesLines) ==
  [hasPreview |-> hasPreview, bpa |-> bpa, yarns |-> yarns,
   notions |-> 4, supplies |-> 4, blurbLines |-> 3, tipLines |-> <<2, 3>>,
   sections |-> sections, assembly |-> assembly, notesLines |-> notesLines]

\* a short section without AI notes; a head of 25 one-line rows with an
\* AI notes box and long finishing notes; a section of long rows
SecShort == PdfSection(<<>>, <<1, 1, 2>>, 2, FALSE)
SecHead ==
  PdfSection([noteLines |-> 2, markLines |-> 3], [i \in 1..25 |-> 1], 8, TRUE)
SecWide ==
  PdfSection([noteLines |-> 1, markLines |-> 0], <<12, 12, 12, 12, 12>>, 0,
             TRUE)
PdfDocs ==
  {PdfDoc(hasPreview, bpa, yarns, sections, assembly, notesLines) :
     hasPreview \in BOOLEAN,
     bpa \in {<<>>, <<0, 3>>},
     yarns \in {2, 21},
     sections \in {<<>>, <<SecShort>>, <<SecHead, SecShort>>,
                   <<SecShort, SecWide, SecHead>>},
     assembly \in {<<>>, <<1, 2, 1>>, [i \in 1..12 |-> 2]},
     notesLines \in {0, 6}}

PdfInit ==
  /\ GIdle
  /\ CIdle
  /\ SIdle
  /\ TIdle
  /\ AIdle
  /\ dDoc \in PdfDocs
  /\ dS = [y |-> CONTENT_TOP, page |-> 1, docPage |-> 1, log |-> <<>>,
           threw |-> FALSE]
  /\ dPc = "cover"
  /\ dSec = 1

PdfIdleOthers ==
  /\ UNCHANGED gvars
  /\ UNCHANGED cvars
  /\ UNCHANGED svars
  /\ UNCHANGED tvars
  /\ UNCHANGED avars

\* coverPage(s, pattern); addFooter(s)
StepCover ==
  /\ dPc = "cover"
  /\ dS' = addFooter(coverPage(dS))
  /\ dPc' = "preview"
  /\ UNCHANGED <<dDoc, dSec>>
  /\ PdfIdleOthers

\* previewImagePage: doc.addImage succeeds or throws
StepPreview ==
  /\ dPc = "preview"
  /\ \E ok \in BOOLEAN :
       /\ dS' = previewImagePage(dS, dDoc, ok)
       /\ dPc' = IF previewImagePage(dS, dDoc, ok).threw THEN "failed"
                 ELSE "materials"
  /\ UNCHANGED <<dDoc, dSec>>
  /\ PdfIdleOthers

StepMaterials ==
  /\ dPc = "materials"
  /\ dS' = materialsPage(dS, dDoc)
  /\ dPc' = "abbreviations"
  /\ UNCHANGED <<dDoc, dSec>>
  /\ PdfIdleOthers

StepAbbreviations ==
  /\ dPc = "abbreviations"
  /\ dS' = abbreviationsSection(dS, dDoc)
  /\ dPc' = "sections"
  /\ UNCHANGED <<dDoc, dSec>>
  /\ PdfIdleOthers

\* one pass of the loop over gen.sections
StepSection ==
  /\ dPc = "sections"
  /\ dSec <= Len(dDoc.sections)
  /\ dS' = patternSection(dS, dDoc.sections[dSec], dSec)
  /\ dSec' = dSec + 1
  /\ UNCHANGED <<dDoc, dPc>>
  /\ PdfIdleOthers

\* the assembly page, when there are assembly instructions
StepAssembly ==
  /\ dPc = "sections"
  /\ dSec > Len(dDoc.sections)
  /\ dS' = IF Len(dDoc.assembly) > 0
           THEN assemblyPage(dS, dDoc.assembly, dSec + 2)
           ELSE dS
  /\ dPc' = "notes"
  /\ UNCHANGED <<dDoc, dSec>>
  /\ PdfIdleOthers

\* the notes, when there are notes, numbered after the assembly page
StepNotes ==
  /\ dPc = "notes"
  /\ dS' = IF dDoc.notesLines > 0
           THEN notesSection(dS, dDoc.notesLines,
                             IF Len(dDoc.assembly) > 0 THEN dSec + 3
                             ELSE dSec + 2)
           ELSE dS
  /\ dPc' = "final"
  /\ UNCHANGED <<dDoc, dSec>>
  /\ PdfIdleOthers

\* the final page footer and doc.save
StepSave ==
  /\ dPc = "final"
  /\ dS' = addFooter(dS)
  /\ dPc' = "done"
  /\ UNCHANGED <<dDoc, dSec>>
  /\ PdfIdleOthers

PdfNext ==
  \/ StepCover
  \/ StepPreview
  \/ StepMaterials
  \/ StepAbbreviations
  \/ StepSection
  \/ StepAssembly
  \/ StepNotes
  \/ StepSave

SpecPdf == PdfInit /\ [][PdfNext]_vars

\* ------------------------------------------------------------------------
\* What the layout drew
\* ------------------------------------------------------------------------
\* positions in the log of the entries of kind ev of a block
EntriesOf(log, block, ev) ==
  {i \in DOMAIN log : log[i].block = block /\ log[i].ev = ev}
\* the kinds of block: instruction row, assembly step, tip box, AI notes
\* box, swatch + text rows, total yardage line, wrapped notes paragraph
BlockKinds ==
  {"instruction", "step", "tip", "aiNotes", "yarnRow", "colorRef", "total",
   "notes"}
BlocksDrawn(log) ==
  {log[i].block : i \in {j \in DOMAIN log : /\ log[j].ev = "draw"
                                            /\ log[j].block[1] \in BlockKinds}}
\* the block asked ensureSpace for its whole height once, before any of it
\* was drawn, and all of it is on one page inside the content band
BlockAtomic(log, block) ==
  /\ Cardinality(EntriesOf(log, block, "ensure")) = 1
  /\ \A e \in EntriesOf(log, block, "ensure") :
       \A d \in EntriesOf(log, block, "draw") :
         /\ e < d
         /\ \A d2 \in EntriesOf(log, block, "draw") :
              log[d].y - log[d2].y <= log[e].h
  /\ \A d \in EntriesOf(log, block, "draw") :
       /\ log[d].y <= CONTENT_BOTTOM
       /\ \A d2 \in EntriesOf(log, block, "draw") : log[d].page = log[d2].page

\* C14: every rendered block (instruction row, assembly step, tip box, AI
\* notes box with its markings lines, swatch + text row, total yardage line,
\* wrapped notes paragraph) asks ensureSpace for its whole height once,
\* before any of it is drawn, and never again between its lines, so that it
\* is on one page.
C14_BlockGranular ==
  \A block \in BlocksDrawn(dS.log) : BlockAtomic(dS.log, block)

\* the ways a block is not atomic: a notes paragraph with lines on two
\* pages, the total yardage line drawn below the content band without any
\* ensureSpace, an AI notes box drawn beyond the height it asked for
NotesSplitAcrossPages ==
  \E k \in 0..Len(dDoc.sections) :
    \E d \in EntriesOf(dS.log, <<"notes", k, 0>>, "draw") :
      \E d2 \in EntriesOf(dS.log, <<"notes", k, 0>>, "draw") :
        dS.log[d].page # dS.log[d2].page
TotalLineBelowBand ==
  /\ EntriesOf(dS.log, <<"total", 0, 0>>, "ensure") = {}
  /\ \E d \in EntriesOf(dS.log, <<"total", 0, 0>>, "draw") :
       dS.log[d].y > CONTENT_BOTTOM
AiBoxBeyondRequest ==
  \E k \in 1..Len(dDoc.sections) :
    \E e \in EntriesOf(dS.log, <<"aiNotes", k, 0>>, "ensure") :
      \E d \in EntriesOf(dS.log, <<"aiNotes", k, 0>>, "draw") :
        \E d2 \in EntriesOf(dS.log, <<"aiNotes", k, 0>>, "draw") :
          dS.log[d].y - dS.log[d2].y > dS.log[e].h
\* the blocks that are atomic: instruction rows, assembly steps, tip boxes
\* and yarn rows
RowsAndStepsAtomic ==
  \A block \in BlocksDrawn(dS.log) :
    block[1] \in {"instruction", "step", "tip", "yarnRow"}
    => BlockAtomic(dS.log, block)

\* positions in the log of the headers of the materials page (1), the
\* abbreviations page (2) and the body-part sections (3 ..)
SectionStarts(log, doc) ==
  {i \in DOMAIN log : /\ log[i].ev = "draw"
                      /\ log[i].block[1] = "sectionHeader"
                      /\ log[i].block[2] <= 2 + Len(doc.sections)}
\* the header at position i comes right after a page break: the footer
\* numbered n on the page left, the running header of page n + 1 on the
\* next page of the document, and the cursor at the top content boundary
HardBreakBefore(log, i) ==
  /\ i >= 3
  /\ log[i - 2].ev = "footer"
  /\ log[i - 1].ev = "header"
  /\ log[i - 1].block[2] = log[i - 2].num + 1
  /\ log[i - 1].page = log[i - 2].page + 1
  /\ log[i].page = log[i - 1].page
  /\ log[i].y = CONTENT_TOP

\* every header drawn by sectionHeader, those of the assembly page and of
\* the notes included
AllSectionHeaders(log) ==
  {i \in DOMAIN log : log[i].ev = "draw" /\ log[i].block[1] = "sectionHeader"}

\* C15: the materials page, the abbreviations page and each body-part
\* section begin with an unconditional page break (page counter up by
\* exactly one, cursor reset to the top content boundary, whatever space
\* the previous page had left), and no two section headers of the document
\* are on the same page.
C15_NoHeadersShare ==
  /\ \A i \in SectionStarts(dS.log, dDoc) : HardBreakBefore(dS.log, i)
  /\ \A i \in AllSectionHeaders(dS.log) :
       \A j \in AllSectionHeaders(dS.log) :
         i # j => dS.log[i].page # dS.log[j].page
\* the notes header on the page of the assembly header
NotesHeaderSharesPage ==
  \E i \in AllSectionHeaders(dS.log) :
    \E j \in AllSectionHeaders(dS.log) :
      /\ i < j
      /\ dS.log[i].page = dS.log[j].page
      /\ Len(dDoc.assembly) > 0
      /\ dS.log[i].block[2] = 3 + Len(dDoc.sections)
      /\ dS.log[j].block[2] = 4 + Len(dDoc.sections)
\* C15 (amended): the materials page, the abbreviations page and each
\* body-part section begin with an unconditional page break: the page
\* counter goes up by exactly one and the cursor is reset to the top
\* content boundary, whatever space the previous page had left, and no two
\* of their headers are on the same page.
C15_HardBreaks ==
  /\ \A i \in SectionStarts(dS.log, dDoc) : HardBreakBefore(dS.log, i)
  /\ \A i \in SectionStarts(dS.log, dDoc) :
       \A j \in SectionStarts(dS.log, dDoc) :
         i # j => dS.log[i].page # dS.log[j].page
\* a finished document with two body-part sections, the second started on
\* a fresh page while the first had ended in the upper half of its page
C15_Witness ==
  /\ dPc = "done"
  /\ \E i \in SectionStarts(dS.log, dDoc) :
       /\ dS.log[i].block[2] = 4
       /\ i >= 4
       /\ dS.log[i - 3].ev = "draw"
       /\ dS.log[i - 3].block[2] = 1
       /\ dS.log[i - 3].y < CONTENT_TOP + 1000
       /\ HardBreakBefore(dS.log, i)

\* the pages of the document so far
Pages == 1..dS.docPage
HasFooter(log, p) ==
  \E i \in DOMAIN log :
    log[i].ev = "footer" /\ log[i].page = p /\ log[i].num = p
HasHeader(log, p) ==
  \E i \in DOMAIN log : log[i].ev = "header" /\ log[i].page = p
FootersNumbered(log) ==
  \A i \in DOMAIN log : log[i].ev = "footer" => log[i].num = log[i].page

\* C16: when the document is saved, every page, the cover included, has
\* the running header and a footer showing the page's own number.
C16_HeaderFooterEveryPage ==
  dPc = "done"
  => /\ \A p \in Pages : HasHeader(dS.log, p) /\ HasFooter(dS.log, p)
     /\ FootersNumbered(dS.log)
\* C16 (amended): when the document is saved, every page has a footer
\* showing the page's own number, and every page but the cover has the
\* running header.
C16_FooterEveryPage ==
  dPc = "done"
  => /\ \A p \in Pages : HasFooter(dS.log, p)
     /\ \A p \in Pages : p > 1 => HasHeader(dS.log, p)
     /\ FootersNumbered(dS.log)
\* a saved document of at least six pages, one of them begun by an
\* overflow inside a section
C16_Witness ==
  /\ dPc = "done"
  /\ dS.docPage >= 6
  /\ \A p \in Pages : HasFooter(dS.log, p)
  /\ \E i \in DOMAIN dS.log :
       /\ i > 1
       /\ dS.log[i].ev = "footer"
       /\ dS.log[i - 1].ev = "ensure"

\* the log has a draw of the block
Drawn(log, block) == EntriesOf(log, block, "draw") # {}
\* the image step of the preview page ended in the catch
EmbedFailed == Drawn(dS.log, <<"placeholder", 0, 0>>)

\* C17: generatePatternPDF never fails because of the image, and when the
\* embedding failed the saved document has the placeholder line, the
\* materials page, the abbreviations page, every body-part section, the
\* assembly page (when there are assembly steps) and the final footer.
C17_EmbedFailureRecovered ==
  /\ dPc # "failed"
  /\ ~dS.threw
  /\ (dPc \notin {"cover", "preview"} /\ dDoc.hasPreview)
     => (Drawn(dS.log, <<"image", 0, 0>>) \/ EmbedFailed)
  /\ (dPc = "done" /\ EmbedFailed)
     => /\ \A num \in 1..(2 + Len(dDoc.sections)) :
             Drawn(dS.log, <<"sectionHeader", num, 0>>)
        /\ Len(dDoc.assembly) > 0
           => Drawn(dS.log, <<"sectionHeader", 3 + Len(dDoc.sections), 0>>)
        /\ dS.log[Len(dS.log)].ev = "footer"
        /\ dS.log[Len(dS.log)].num = dS.docPage
\* a saved document whose image failed to embed, with three body-part
\* sections and an assembly page after it
C17_Witness ==
  /\ dPc = "done"
  /\ EmbedFailed
  /\ ~Drawn(dS.log, <<"image", 0, 0>>)
  /\ Len(dDoc.sections) = 3
  /\ Drawn(dS.log, <<"sectionHeader", 5, 0>>)
  /\ Drawn(dS.log, <<"step", 1, 0>>)
  /\ dS.log[Len(dS.log)].ev = "footer"


\* ------------------------------------------------------------------------
\* The pattern store: generateFromAnalysis, regeneratePattern and
\* reanalyzeWithColors resolve a breed name to a preset and compile
\* ------------------------------------------------------------------------
MaxStoreCalls == 2

\* breed names the wizard and the analysis service hand to the store
StoreBreedNames ==
  {"labrador", "Corgi (Pembroke Welsh)", "corgi-husky", "husky", "Shiba Inu"}

\* breedName.toLowerCase().trim() on the names above
ToLowerTrim(breedName) ==
  CASE breedName = "Corgi (Pembroke Welsh)" -> "corgi (pembroke welsh)"
    [] breedName = "Shiba Inu" -> "shiba inu"
    [] OTHER -> breedName
\* normalized.split(/[-\s\/,]+/) on the names above
SplitBreedName(normalized) ==
  CASE normalized = "corgi (pembroke welsh)"
         -> <<"corgi", "(pembroke", "welsh)">>
    [] normalized = "corgi-husky" -> <<"corgi", "husky">>
    [] normalized = "shiba inu" -> <<"shiba", "inu">>
    [] OTHER -> <<normalized>>

\* the entries of the name map for the breeds whose presets are modelled
BREED_NAME_TO_PRESET_MAP ==
  ("labrador retriever" :> "labrador")
  @@ ("corgi (pembroke welsh)" :> "corgi")
  @@ ("corgi (cardigan welsh)" :> "corgi")
  @@ ("mixed breed / other" :> "labrador")

\* the preset a name matches by itself: the map first, then the preset
\* ids; "" when neither has it
DirectMatch(name) ==
  IF name \in DOMAIN BREED_NAME_TO_PRESET_MAP
  THEN BREED_NAME_TO_PRESET_MAP[name]
  ELSE IF HasPreset(name) THEN name ELSE ""
\* the loop over the components of a compound name: the first component
\* that matches, "" when none does
RECURSIVE ComponentMatch(_, _)
ComponentMatch(parts, i) ==
  IF i > Len(parts) THEN ""
  ELSE IF DirectMatch(parts[i]) # "" THEN DirectMatch(parts[i])
  ELSE ComponentMatch(parts, i + 1)
\* the name matches a preset before the default fallback is taken
Resolves(breedName) ==
  \/ DirectMatch(ToLowerTrim(breedName)) # ""
  \/ ComponentMatch(SplitBreedName(ToLowerTrim(breedName)), 1) # ""
getPresetBreedId(breedName) ==
  IF DirectMatch(ToLowerTrim(breedName)) # ""
  THEN DirectMatch(ToLowerTrim(breedName))
  ELSE IF ComponentMatch(SplitBreedName(ToLowerTrim(breedName)), 1) # ""
  THEN ComponentMatch(SplitBreedName(ToLowerTrim(breedName)), 1)
  ELSE "labrador"

\* getDefaultAnalysisForBreed(breedId), for the preset ids of the model
AnaCorgi ==
  [Analysis("corgi", "#CD853F", "#FFFFFF", "#1A1A1A",
            << Bp("head", "#CD853F", <<"Fox-like wedge shape.">>),
               Bp("ears", "#CD853F", <<"Must stand upright.">>) >>)
     EXCEPT !.earShape = "pointy", !.tailType = "plumed",
            !.buildType = "stocky"]
getDefaultAnalysisForBreed(breedId) ==
  IF breedId = "corgi" THEN AnaCorgi
  ELSE [AnaLab EXCEPT !.detectedBreed = breedId]

\* what analyzeImage can return
StoreAnalyses == {AnaLab, AnaCorgi, AnaHusky}

\* defaultCustomizations of generateFromAnalysis
StoreCustomizations(selectedSize) ==
  [colorAssignments |-> <<>>,
   toggledFeatures |-> <<>>,
   proportionAdjustments |-> <<>>,
   difficultyLevel |-> "standard",
   sizeMultiplier |-> IF selectedSize = "small" THEN 75
                      ELSE IF selectedSize = "large" THEN 150 ELSE 100]

\* the CustomPattern the store keeps as currentPattern
StorePattern(r) ==
  [breedId |-> r.breedId,
   customizations |-> r.customizations,
   generatedPattern |-> r.generatedPattern,
   materials |-> r.materials]

\* one compile call of the store: the breed name it started from, the
\* preset id it compiled with ("" when it did not compile) and whether it
\* ended in its catch block
StoreCall(op, requested, used, threw) ==
  [op |-> op, requested |-> requested, used |-> used, threw |-> threw]

StoreInit ==
  /\ tSelected \in {<<>>} \cup {<<n>> : n \in StoreBreedNames}
  /\ tSize \in {"", "small", "large"}
  /\ tHasImage \in BOOLEAN
  /\ tAnalysis \in {<<>>} \cup StoreAnalyses
  /\ tPattern = <<>>
  /\ tError = ""
  /\ tCalls = <<>>
  /\ GIdle
  /\ CIdle
  /\ SIdle
  /\ DIdle
  /\ AIdle

StoreIdleOthers ==
  /\ UNCHANGED gvars
  /\ UNCHANGED cvars
  /\ UNCHANGED svars
  /\ UNCHANGED dvars
  /\ UNCHANGED avars

\* the handler returned before the try block
StoreRefused(op, message) ==
  /\ tError' = message
  /\ tCalls' = Append(tCalls, StoreCall(op, "", "", FALSE))
  /\ UNCHANGED <<tAnalysis, tPattern>>
\* the try block threw: the catch sets error and leaves currentPattern
StoreCaught(op, requested, used, analysis, message) ==
  /\ tError' = message
  /\ tAnalysis' = analysis
  /\ tCalls' = Append(tCalls, StoreCall(op, requested, used, TRUE))
  /\ UNCHANGED tPattern
\* generatePattern returned r; savePattern, where the handler calls it,
\* succeeded or threw
StoreCompiled(op, requested, used, r, saved) ==
  IF saved
  THEN /\ tError' = ""
       /\ tAnalysis' = r.analysisAfter
       /\ tPattern' = StorePattern(r)
       /\ tCalls' = Append(tCalls, StoreCall(op, requested, used, FALSE))
  ELSE StoreCaught(op, requested, used, r.analysisAfter,
                   "Failed to save pattern")

\* generateFromAnalysis with the analysis it works on and the breed id it
\* looks the preset up with
GenerateWith(analysis, requested, breedId) ==
  IF ~HasPreset(breedId)
  THEN StoreCaught("generateFromAnalysis", requested, "", analysis,
                   "Preset not found for breed")
  ELSE \E saved \in BOOLEAN :
         StoreCompiled("generateFromAnalysis", requested, breedId,
                       generatePattern(analysis,
                                       getPreset(breedId,
                                                 IF tSize # "" THEN tSize
                                                 ELSE "medium"),
                                       StoreCustomizations(tSize)),
                       saved)

CallGenerateFromAnalysis ==
  /\ Len(tCalls) < MaxStoreCalls
  /\ IF tAnalysis = <<>> /\ tSelected = <<>>
     THEN StoreRefused("generateFromAnalysis",
                       "Please select at least one breed first")
     ELSE GenerateWith(IF tAnalysis = <<>>
                       THEN getDefaultAnalysisForBreed(
                              getPresetBreedId(tSelected[1]))
                       ELSE tAnalysis,
                       IF tSelected # <<>> THEN tSelected[1]
                       ELSE tAnalysis.detectedBreed,
                       IF tSelected # <<>> THEN getPresetBreedId(tSelected[1])
                       ELSE tAnalysis.detectedBreed)
  /\ UNCHANGED <<tSelected, tSize, tHasImage>>
  /\ StoreIdleOthers

\* the compile of regeneratePattern and reanalyzeWithColors: the preset of
\* getPresetBreedId(analysis.detectedBreed), the current customizations
RecompileWith(op, analysis, presetBreedId, saved) ==
  IF ~HasPreset(presetBreedId)
  THEN StoreCaught(op, analysis.detectedBreed, "", analysis,
                   "Preset not found for breed")
  ELSE StoreCompiled(op, analysis.detectedBreed, presetBreedId,
                     generatePattern(analysis, getPreset(presetBreedId, ""),
                                     tPattern.customizations),
                     saved)

Regenerate ==
  IF tPattern = <<>> \/ tAnalysis = <<>>
  THEN StoreRefused("regeneratePattern",
                    "No pattern or analysis result available")
  ELSE RecompileWith("regeneratePattern", tAnalysis,
                     getPresetBreedId(tAnalysis.detectedBreed), TRUE)

CallRegeneratePattern ==
  /\ Len(tCalls) < MaxStoreCalls
  /\ Regenerate
  /\ UNCHANGED <<tSelected, tSize, tHasImage>>
  /\ StoreIdleOthers

CallReanalyzeWithColors ==
  /\ Len(tCalls) < MaxStoreCalls
  /\ IF tPattern = <<>>
     THEN StoreRefused("reanalyzeWithColors", "No pattern to re-analyze")
     ELSE IF ~tHasImage THEN Regenerate
     ELSE \/ /\ tError' = "Failed to re-analyze with colors"
             /\ tCalls' = Append(tCalls,
                                 StoreCall("reanalyzeWithColors", "", "",
                                           TRUE))
             /\ UNCHANGED <<tAnalysis, tPattern>>
          \/ \E result \in StoreAnalyses : \E saved \in BOOLEAN :
               RecompileWith("reanalyzeWithColors", result,
                             getPresetBreedId(result.detectedBreed), saved)
  /\ UNCHANGED <<tSelected, tSize, tHasImage>>
  /\ StoreIdleOthers

StoreNext ==
  \/ CallGenerateFromAnalysis
  \/ CallRegeneratePattern
  \/ CallReanalyzeWithColors
SpecStore == StoreInit /\ [][StoreNext]_vars

\* the call compiled with a preset although its breed name matches no
\* preset
Substituted(call) ==
  /\ call.requested # ""
  /\ ~Resolves(call.requested)
  /\ call.used # ""

\* C13: when no preset exists for the breed, the compile signals a lookup
\* failure and returns no pattern; no store path compiles with another
\* breed's preset instead.
C13_NoSilentSubstitution ==
  \A i \in DOMAIN tCalls :
    (tCalls[i].requested # "" /\ ~Resolves(tCalls[i].requested))
    => (tCalls[i].threw /\ tCalls[i].used = "")
\* each store path compiles an unknown breed with the labrador preset and
\* reports no error
SubstitutedBy(op) ==
  \E i \in DOMAIN tCalls :
    /\ tCalls[i].op = op
    /\ Substituted(tCalls[i])
    /\ ~tCalls[i].threw
    /\ tCalls[i].used = "labrador"
    /\ i = Len(tCalls) => (tError = "" /\ tPattern # <<>>)
GenerateSubstitutes == SubstitutedBy("generateFromAnalysis")
RegenerateSubstitutes == SubstitutedBy("regeneratePattern")
ReanalyzeSubstitutes == SubstitutedBy("reanalyzeWithColors")
\* without a selected breed generateFromAnalysis looks the detected breed
\* up as it is and signals the missing preset
GenerateSignalsMissing ==
  \E i \in DOMAIN tCalls :
    /\ tCalls[i].op = "generateFromAnalysis"
    /\ tCalls[i].requested = "husky"
    /\ tCalls[i].threw
    /\ tCalls[i].used = ""
    /\ i = Len(tCalls) => tError = "Preset not found for breed"


\* ------------------------------------------------------------------------
\* Enabled parts in the sections and in the materials
\* ------------------------------------------------------------------------
\* the colour keys a zone or the "All primary" branch can add yardage to
YardageKeys == {"primary", "secondary", "tertiary", "accent"}
\* the preset without one of its body parts
PresetWithout(preset, partName) ==
  [preset EXCEPT
     !.bodyParts = [q \in (DOMAIN preset.bodyParts) \ {partName} |->
                      preset.bodyParts[q]]]
\* the accumulator of generateMaterialsList, by colour key
Accumulator(preset, customizations) ==
  [key \in YardageKeys |->
     YardagePerColor(preset, customizations,
                     YARDAGE_BY_SIZE[getSizeKey(customizations.sizeMultiplier)],
                     key, 1)]
\* the part adds yardage: the accumulator is not what it is without the
\* part
AddsYardage(preset, customizations, partName) ==
  /\ partName \in DOMAIN preset.bodyParts
  /\ Accumulator(preset, customizations)
       # Accumulator(PresetWithout(preset, partName), customizations)
\* the last customizer call compiled the pattern the caller holds
CompiledNow ==
  /\ trail # <<>>
  /\ Last(trail).op \in {"updateColors", "toggleFeature",
                         "adjustProportions", "applyCustomizations"}
  /\ ~Last(trail).threw
  /\ HasPreset(patObjs[cur].breedId)
\* the sections and the customizations of the pattern the caller holds
CurSectionParts ==
  {gs.bodyParts[1] :
     gs \in {genObjs[patObjs[cur].generatedPattern].sections[k] :
               k \in 1..Len(genObjs[patObjs[cur].generatedPattern].sections)}}
CurCustomizations == custObjs[patObjs[cur].customizations]
CurPreset == getPreset(patObjs[cur].breedId, "")

\* C21: in a compiled pattern the parts that have a section are the parts
\* that add yardage to the per-colour accumulator, and a part toggled
\* false has no section and adds no yardage to any colour key.
C21_SectionsMatchMaterials ==
  CompiledNow
  => /\ CurSectionParts
          = {q \in DOMAIN CurPreset.bodyParts :
               AddsYardage(CurPreset, CurCustomizations, q)}
     /\ \A q \in DOMAIN CurCustomizations.toggledFeatures :
          CurCustomizations.toggledFeatures[q] = FALSE
          => /\ q \notin CurSectionParts
             /\ ~AddsYardage(CurPreset, CurCustomizations, q)
\* ear and tail are toggled off, head and frontLeg have sections and add
\* yardage
C21_Witness ==
  /\ CompiledNow
  /\ CurPreset = getPreset("labrador", "")
  /\ "ear" \in DOMAIN CurCustomizations.toggledFeatures
  /\ "tail" \in DOMAIN CurCustomizations.toggledFeatures
  /\ CurCustomizations.toggledFeatures["ear"] = FALSE
  /\ CurCustomizations.toggledFeatures["tail"] = FALSE
  /\ CurSectionParts = {"head", "frontLeg"}
  /\ AddsYardage(CurPreset, CurCustomizations, "head")
  /\ ~AddsYardage(CurPreset, CurCustomizations, "ear")


\* ------------------------------------------------------------------------
\* The palette: seeded by buildColorAssignments when the store creates a
\* pattern, then edited by the store's addColorAssignment and
\* updateColorAssignment
\* ------------------------------------------------------------------------
MaxBp == 2
MaxPaletteCalls == 3

\* per-part analyses as the analysis service can return them: the same
\* partName more than once, a nose part with or without a colour, a part
\* in the primary colour
PaletteParts ==
  { Bp("head", "#3B2F2F", <<>>), Bp("head", "#8B4513", <<>>),
    Bp("head", "#C4A265", <<>>), Bp("nose", "#000000", <<>>),
    Bp("nose", "#3B2F2F", <<>>), Bp("nose", "", <<>>) }
PaletteAccents == {"", "#1A1A1A", "#FFFFFF"}
PaletteAnalyses ==
  { Analysis("labrador", "#C4A265", "#E8D5B0", accent, bpa) :
      accent \in PaletteAccents,
      bpa \in UNION {[1..n -> PaletteParts] : n \in 0..MaxBp} }

PaletteInit ==
  /\ tSelected = <<"labrador">>
  /\ tSize = ""
  /\ tHasImage = FALSE
  /\ tAnalysis \in PaletteAnalyses
  /\ tPattern = <<>>
  /\ tError = ""
  /\ tCalls = <<>>
  /\ GIdle
  /\ CIdle
  /\ SIdle
  /\ DIdle
  /\ AIdle

\* the arguments the colour editor passes
PaletteKeys == {"primary", "bp-head", "nose", "custom-1"}
PaletteHexes == {"#FFFFFF", "#8B4513"}

\* assignments[idx] = { ...assignments[idx], hexCode } for the first entry
\* with the key, when there is one
WithHexCode(assignments, colorKey, hexCode) ==
  IF Find({k \in 1..Len(assignments) : assignments[k].colorKey = colorKey})
       = 0
  THEN assignments
  ELSE [assignments EXCEPT
          ![Find({k \in 1..Len(assignments) :
                    assignments[k].colorKey = colorKey})].hexCode = hexCode]

\* a variant of the push without the "Avoid duplicates" test
WithAssignment_NoTest(assignments, colorKey, hexCode, yarnName) ==
  PushAssignment(assignments, colorKey, hexCode, yarnName)

\* if (!assignments.find(a => a.colorKey === colorKey)) assignments.push(..)
WithAssignment(assignments, colorKey, hexCode, yarnName) ==
  IF Find({k \in 1..Len(assignments) : assignments[k].colorKey = colorKey})
       = 0
  THEN PushAssignment(assignments, colorKey, hexCode, yarnName)
  ELSE assignments

\* set({ currentPattern: updated }) with the new colorAssignments
SetAssignments(op, assignments) ==
  /\ tPattern' = [tPattern EXCEPT
                    !.customizations.colorAssignments = assignments]
  /\ tCalls' = Append(tCalls, StoreCall(op, "", "", FALSE))
  /\ UNCHANGED <<tSelected, tSize, tHasImage, tAnalysis, tError>>
  /\ StoreIdleOthers

CallUpdateColorAssignment ==
  /\ Len(tCalls) < MaxPaletteCalls
  /\ tPattern # <<>>
  /\ \E colorKey \in PaletteKeys : \E hexCode \in PaletteHexes :
       SetAssignments("updateColorAssignment",
                      WithHexCode(tPattern.customizations.colorAssignments,
                                  colorKey, hexCode))

CallAddColorAssignment ==
  /\ Len(tCalls) < MaxPaletteCalls
  /\ tPattern # <<>>
  /\ \E colorKey \in PaletteKeys : \E hexCode \in PaletteHexes :
       SetAssignments("addColorAssignment",
                      WithAssignment(tPattern.customizations.colorAssignments,
                                     colorKey, hexCode, <<"Custom">>))

PaletteNext ==
  \/ CallGenerateFromAnalysis
  \/ CallUpdateColorAssignment
  \/ CallAddColorAssignment
SpecPalette == PaletteInit /\ [][PaletteNext]_vars

\* the palette of the current pattern and the analysis it was seeded from
Palette == tPattern.customizations.colorAssignments
PaletteOf(colorKey) ==
  {Palette[k] : k \in {j \in 1..Len(Palette) : Palette[j].colorKey = colorKey}}
\* the palette is as buildColorAssignments made it
Seeded ==
  /\ tPattern # <<>>
  /\ tCalls # <<>>
  /\ tCalls[Len(tCalls)].op = "generateFromAnalysis"
  /\ ~tCalls[Len(tCalls)].threw
\* the colours of the analysis's nose parts
NoseColours ==
  {tAnalysis.bodyPartAnalysis[k].primaryColor :
     k \in {j \in 1..Len(tAnalysis.bodyPartAnalysis) :
              /\ tAnalysis.bodyPartAnalysis[j].partName = "nose"
              /\ tAnalysis.bodyPartAnalysis[j].primaryColor # ""}}

\* C22: in a seeded palette the nose entry has the colour of the
\* analysis's nose part whenever the analysis has a nose part with a
\* colour; only without one it has the accent colour, and only without an
\* accent either it is #000000.
C22_NosePrefersAnalysis ==
  Seeded
  => /\ Cardinality(PaletteOf("nose")) = 1
     /\ \A e \in PaletteOf("nose") :
          /\ NoseColours # {} => e.hexCode \in NoseColours
          /\ (NoseColours = {} /\ tAnalysis.colors.accent # "")
             => e.hexCode = tAnalysis.colors.accent
          /\ (NoseColours = {} /\ tAnalysis.colors.accent = "")
             => e.hexCode = "#000000"
\* the analysis has a black nose part and a white accent, and the nose
\* entry is white
BlackNoseReplaced ==
  /\ Seeded
  /\ tAnalysis.bodyPartAnalysis = <<Bp("nose", "#000000", <<>>)>>
  /\ tAnalysis.colors.accent = "#FFFFFF"
  /\ \E e \in PaletteOf("nose") : e.hexCode = "#FFFFFF"
\* the colour of the first nose part of the analysis, "" when it has no
\* nose part or the first one has no colour
FirstNoseColour ==
  IF Find({k \in 1..Len(tAnalysis.bodyPartAnalysis) :
             tAnalysis.bodyPartAnalysis[k].partName = "nose"}) = 0
  THEN ""
  ELSE tAnalysis.bodyPartAnalysis[
         Find({k \in 1..Len(tAnalysis.bodyPartAnalysis) :
                 tAnalysis.bodyPartAnalysis[k].partName = "nose"})].primaryColor
\* with a first nose part of another colour than black, or without a nose
\* part, the order holds
NoseOrderOtherwise ==
  Seeded
  => \A e \in PaletteOf("nose") :
       /\ FirstNoseColour \notin {"", "#000000"}
          => e.hexCode = FirstNoseColour
       /\ (NoseColours = {} /\ tAnalysis.colors.accent # "")
          => e.hexCode = tAnalysis.colors.accent
       /\ (NoseColours = {} /\ tAnalysis.colors.accent = "")
          => e.hexCode = "#000000"

\* C23: the palette of the current pattern never has two entries with the
\* same colorKey, as seeded from any analysis and after any
\* addColorAssignment and updateColorAssignment.
C23_ColorKeyUnique ==
  tPattern # <<>>
  => \A i, j \in 1..Len(Palette) :
       Palette[i].colorKey = Palette[j].colorKey => i = j
\* two head parts of different colours give two bp-head entries
TwoHeadEntries ==
  /\ Seeded
  /\ \E i, j \in 1..Len(Palette) :
       /\ i < j
       /\ Palette[i].colorKey = "bp-head"
       /\ Palette[j].colorKey = "bp-head"
       /\ Palette[i].hexCode # Palette[j].hexCode
\* the store actions add no duplicate: from a palette with unique keys
\* they lead to one
StoreKeepsKeysUnique ==
  [][(/\ tPattern # <<>>
      /\ C23_ColorKeyUnique
      /\ tCalls' # tCalls
      /\ tCalls'[Len(tCalls')].op
           \in {"addColorAssignment", "updateColorAssignment"})
     => C23_ColorKeyUnique']_vars


\* ------------------------------------------------------------------------
\* The breed selection of the upload page
\* ------------------------------------------------------------------------
MaxBreedArg == 5
\* the most breeds the store keeps
BREED_LIMIT == 4

\* the breeds the selector offers, and the arrays setSelectedBreeds is
\* called with
BreedChoices == {"labrador", "corgi", "husky", "Shiba Inu", "beagle"}
BreedArrays == UNION {[1..n -> {"labrador", "husky"}] : n \in 0..MaxBreedArg}

\* breeds.slice(0, 4)
setSelectedBreeds(breeds) == SubSeq(breeds, 1, Min(BREED_LIMIT, Len(breeds)))

\* a toggle without the length test
toggleBreed_NoLimit(current, breed) ==
  IF \E k \in 1..Len(current) : current[k] = breed
  THEN SelectSeq(current, LAMBDA b : b # breed)
  ELSE Append(current, breed)

\* toggleBreed: remove the breed when selected, else append it when fewer
\* than 4 are selected, else nothing
toggleBreed(current, breed) ==
  IF \E k \in 1..Len(current) : current[k] = breed
  THEN SelectSeq(current, LAMBDA b : b # breed)
  ELSE IF Len(current) < BREED_LIMIT THEN Append(current, breed)
  ELSE current

BreedsInit ==
  /\ TIdle
  /\ GIdle
  /\ CIdle
  /\ SIdle
  /\ DIdle
  /\ AIdle

\* the selection after the call, and the call as the last one made
Selected(op, arg, breeds) ==
  /\ tSelected' = breeds
  /\ tCalls' = <<StoreCall(op, arg, "", FALSE)>>
  /\ UNCHANGED <<tSize, tHasImage, tAnalysis, tPattern, tError>>
  /\ StoreIdleOthers

CallSetSelectedBreeds ==
  \E breeds \in BreedArrays :
    Selected("setSelectedBreeds", breeds, setSelectedBreeds(breeds))
CallToggleBreed ==
  \E breed \in BreedChoices :
    Selected("toggleBreed", breed, toggleBreed(tSelected, breed))

BreedsNext == CallSetSelectedBreeds \/ CallToggleBreed
SpecBreeds == BreedsInit /\ [][BreedsNext]_vars

\* C24: after any sequence of setSelectedBreeds and toggleBreed the store
\* holds at most 4 selected breeds.
C24_AtMostFourBreeds == Len(tSelected) <= BREED_LIMIT
\* four breeds are selected and the toggle of a fifth changed nothing
C24_Witness ==
  /\ Len(tSelected) = BREED_LIMIT
  /\ tCalls # <<>>
  /\ tCalls[1].op = "toggleBreed"
  /\ \A k \in 1..Len(tSelected) : tSelected[k] # tCalls[1].requested
\* an array of five was cut to its first four
FiveCutToFour ==
  /\ tCalls # <<>>
  /\ tCalls[1].op = "setSelectedBreeds"
  /\ Len(tCalls[1].requested) = 5
  /\ tSelected = SubSeq(tCalls[1].requested, 1, 4)


\* ------------------------------------------------------------------------
\* The store's asynchronous actions.  Each action runs from one await to
\* the next in one step; between two of its steps the steps of the other
\* actions in flight can run.  A pattern is what these actions read of it:
\* its id, its previewImageUrl ("" when unset) and whether it has a
\* dogPhotoUrl.  aS has the store fields
\* (cur: currentPattern, <<>> when null; analysis: analysisResult is set;
\* image: uploadedImage is set; flag: isGeneratingPreview), db (the
\* patterns object store, by id), tasks (the actions in flight), nextId
\* (the id of the next generated pattern), deleted (the ids whose
\* deletePattern has resolved), ops (the actions started) and last (the
\* step taken last).
\* ------------------------------------------------------------------------
MaxAsyncOps == 3

Pat(id, preview, photo) ==
  [id |-> id, preview |-> preview, photo |-> photo]
Task(kind, pc, pat, id) == [kind |-> kind, pc |-> pc, pat |-> pat, id |-> id]
\* objectStore.put(pattern) and objectStore.delete(id)
DbPut(db, pat) == [i \in (DOMAIN db) \cup {pat.id} |->
                     IF i = pat.id THEN pat ELSE db[i]]
DbDelete(db, id) == [i \in (DOMAIN db) \ {id} |-> db[i]]

AsyncInit ==
  /\ aS = [cur |-> <<>>, analysis |-> FALSE, image |-> FALSE, flag |-> FALSE,
           db |-> <<>>, tasks |-> {}, nextId |-> 1, deleted |-> {},
           ops |-> 0, last |-> "init"]
  /\ uS = <<>>
  /\ GIdle
  /\ CIdle
  /\ SIdle
  /\ TIdle
  /\ DIdle

AsyncIdleOthers ==
  /\ UNCHANGED uS
  /\ UNCHANGED gvars
  /\ UNCHANGED cvars
  /\ UNCHANGED svars
  /\ UNCHANGED tvars
  /\ UNCHANGED dvars

\* an action is started by the user
Started(s, last) == [s EXCEPT !.ops = @ + 1, !.last = last]
\* a task in flight takes a step and goes on as the task next, or ends
\* when next is <<>>
Stepped(s, task, next, last) ==
  [s EXCEPT !.tasks = (@ \ {task}) \cup (IF next = <<>> THEN {} ELSE {next}),
            !.last = last]
Spawned(s, task) == [s EXCEPT !.tasks = @ \cup {task}]

\* setUploadedImage(dataUrl)
SetUploadedImage ==
  /\ aS.ops < MaxAsyncOps
  /\ ~aS.image
  /\ aS' = Started([aS EXCEPT !.image = TRUE], "setUploadedImage")
  /\ AsyncIdleOthers

\* generateFromAnalysis up to `await savePattern(pattern)`: the analysis is
\* set when it was not, the pattern is compiled with a new id and the
\* uploaded image as its dogPhotoUrl
GenerateStart ==
  /\ aS.ops < MaxAsyncOps
  /\ aS' = Spawned(Started([aS EXCEPT !.analysis = TRUE, !.nextId = @ + 1],
                           "generate.start"),
                   Task("generate", "tx", Pat(aS.nextId, "", aS.image),
                        aS.nextId))
  /\ AsyncIdleOthers
\* the put of savePattern(pattern)
GenerateTx ==
  \E t \in aS.tasks :
    /\ t.kind = "generate" /\ t.pc = "tx"
    /\ aS' = Stepped([aS EXCEPT !.db = DbPut(@, t.pat)], t,
                     [t EXCEPT !.pc = "set"], "generate.tx")
    /\ AsyncIdleOthers
\* after the save: set({ currentPattern: pattern, .. }), then
\* `await loadAllPatterns()`
GenerateSet ==
  \E t \in aS.tasks :
    /\ t.kind = "generate" /\ t.pc = "set"
    /\ aS' = Stepped([aS EXCEPT !.cur = t.pat], t,
                     [t EXCEPT !.pc = "loaded"], "generate.set")
    /\ AsyncIdleOthers
\* after loadAllPatterns: when get().analysisResult is set,
\* isGeneratingPreview becomes true and the preview request is sent
GenerateLoaded ==
  \E t \in aS.tasks :
    /\ t.kind = "generate" /\ t.pc = "loaded"
    /\ aS' = IF aS.analysis
             THEN Stepped([aS EXCEPT !.flag = TRUE], t,
                          Task("preview", "fetch", t.pat, t.id),
                          "generate.preview")
             ELSE Stepped(aS, t, <<>>, "generate.done")
    /\ AsyncIdleOthers

\* a variant of the preview callback that clears the flag in every case
PreviewSettled_AlwaysClears(s, t, imageUrl) ==
  IF imageUrl # "" /\ s.cur # <<>> /\ s.cur.id = t.id
  THEN Stepped([s EXCEPT !.cur.preview = imageUrl, !.flag = FALSE], t,
               Task("preview", "tx", [s.cur EXCEPT !.preview = imageUrl],
                    t.id),
               "preview.written")
  ELSE Stepped([s EXCEPT !.flag = FALSE], t, <<>>, "preview.done")

\* the .then callback of generatePreviewImage: imageUrl is "" for null
PreviewSettled(s, t, imageUrl) ==
  IF imageUrl # ""
  THEN IF s.cur # <<>> /\ s.cur.id = t.id
       THEN Stepped([s EXCEPT !.cur.preview = imageUrl, !.flag = FALSE], t,
                    Task("preview", "tx", [s.cur EXCEPT !.preview = imageUrl],
                         t.id),
                    "preview.written")
       ELSE Stepped(s, t, <<>>, "preview.dropped")
  ELSE Stepped([s EXCEPT !.flag = FALSE], t, <<>>, "preview.none")

\* the preview request settles: an image, or null (generatePreviewImage
\* catches its own errors and returns null)
PreviewFetched ==
  \E t \in aS.tasks : \E imageUrl \in {"", "img"} :
    /\ t.kind = "preview" /\ t.pc = "fetch"
    /\ aS' = PreviewSettled(aS, t, imageUrl)
    /\ AsyncIdleOthers
\* the put of `await savePattern(updated)` in the preview callback
PreviewTx ==
  \E t \in aS.tasks :
    /\ t.kind = "preview" /\ t.pc = "tx"
    /\ aS' = Stepped([aS EXCEPT !.db = DbPut(@, t.pat)], t, <<>>,
                     "preview.tx")
    /\ AsyncIdleOthers

\* regeneratePattern has no await: the new pattern takes id,
\* previewImageUrl and dogPhotoUrl from the current one
Regenerated(s, last) ==
  IF s.cur = <<>> \/ ~s.analysis THEN Started(s, "regenerate.refused")
  ELSE Started([s EXCEPT !.cur = Pat(s.cur.id, s.cur.preview, s.cur.photo)], last)
RegenerateNow ==
  /\ aS.ops < MaxAsyncOps
  /\ aS' = Regenerated(aS, "regenerate.set")
  /\ AsyncIdleOthers

\* reanalyzeWithColors up to its first await: `state = get()` is kept for
\* the rest of the action; without a photo it is regeneratePattern
ReanalyzeStart ==
  /\ aS.ops < MaxAsyncOps
  /\ aS' = IF aS.cur = <<>> THEN Started(aS, "reanalyze.refused")
           ELSE IF ~(aS.image \/ aS.cur.photo) THEN Regenerated(aS, "regenerate.set")
           ELSE Spawned(Started(aS, "reanalyze.start"),
                        Task("reanalyze", "analyze", aS.cur, aS.cur.id))
  /\ AsyncIdleOthers
\* analyzeImage returned: analysisResult is set and the pattern is compiled
\* with id, previewImageUrl and dogPhotoUrl of state.currentPattern; or
\* it threw
ReanalyzeAnalyzed ==
  \E t \in aS.tasks : \E ok \in BOOLEAN :
    /\ t.kind = "reanalyze" /\ t.pc = "analyze"
    /\ aS' = IF ok
             THEN Stepped([aS EXCEPT !.analysis = TRUE], t,
                          [t EXCEPT !.pc = "tx",
                                    !.pat = Pat(t.pat.id, t.pat.preview,
                                               t.pat.photo)],
                          "reanalyze.analyzed")
             ELSE Stepped(aS, t, <<>>, "reanalyze.failed")
    /\ AsyncIdleOthers
ReanalyzeTx ==
  \E t \in aS.tasks :
    /\ t.kind = "reanalyze" /\ t.pc = "tx"
    /\ aS' = Stepped([aS EXCEPT !.db = DbPut(@, t.pat)], t,
                     [t EXCEPT !.pc = "set"], "reanalyze.tx")
    /\ AsyncIdleOthers
\* a variant that keeps the previewImageUrl the current pattern has now
ReanalyzeDone_Merges(s, t) ==
  Stepped([s EXCEPT !.cur = IF s.cur # <<>> /\ s.cur.id = t.id
                             THEN Pat(t.id, s.cur.preview, t.pat.photo)
                             ELSE t.pat],
          t, <<>>, "reanalyze.set")
\* set({ currentPattern: pattern, isGenerating: false })
ReanalyzeDone(s, t) == Stepped([s EXCEPT !.cur = t.pat], t, <<>>,
                               "reanalyze.set")
ReanalyzeSet ==
  \E t \in aS.tasks :
    /\ t.kind = "reanalyze" /\ t.pc = "set"
    /\ aS' = ReanalyzeDone(aS, t)
    /\ AsyncIdleOthers

\* saveCurrentPattern: `state = get()`, the put, and after loadAllPatterns
\* set({ currentPattern: { ...state.currentPattern, updatedAt } })
SaveStart ==
  /\ aS.ops < MaxAsyncOps
  /\ aS' = IF aS.cur = <<>> THEN Started(aS, "save.refused")
           ELSE Spawned(Started(aS, "save.start"),
                        Task("save", "tx", aS.cur, aS.cur.id))
  /\ AsyncIdleOthers
SaveTx ==
  \E t \in aS.tasks :
    /\ t.kind = "save" /\ t.pc = "tx"
    /\ aS' = Stepped([aS EXCEPT !.db = DbPut(@, t.pat)], t,
                     [t EXCEPT !.pc = "set"], "save.tx")
    /\ AsyncIdleOthers
SaveSet ==
  \E t \in aS.tasks :
    /\ t.kind = "save" /\ t.pc = "set"
    /\ aS' = Stepped([aS EXCEPT !.cur = t.pat], t, <<>>, "save.set")
    /\ AsyncIdleOthers

\* deletePattern(id): the delete, then `if (currentPattern?.id === id)
\* set({ currentPattern: null })`, then loadAllPatterns and resolve
DeleteStart ==
  /\ aS.ops < MaxAsyncOps
  /\ \E id \in DOMAIN aS.db :
       aS' = Spawned(Started(aS, "delete.start"),
                     Task("delete", "tx", <<>>, id))
  /\ AsyncIdleOthers
DeleteTx ==
  \E t \in aS.tasks :
    /\ t.kind = "delete" /\ t.pc = "tx"
    /\ aS' = Stepped([aS EXCEPT !.db = DbDelete(@, t.id)], t,
                     [t EXCEPT !.pc = "after"], "delete.tx")
    /\ AsyncIdleOthers
DeleteAfter ==
  \E t \in aS.tasks :
    /\ t.kind = "delete" /\ t.pc = "after"
    /\ aS' = Stepped(IF aS.cur # <<>> /\ aS.cur.id = t.id
                     THEN [aS EXCEPT !.cur = <<>>] ELSE aS,
                     t, [t EXCEPT !.pc = "loaded"], "delete.after")
    /\ AsyncIdleOthers
DeleteResolved ==
  \E t \in aS.tasks :
    /\ t.kind = "delete" /\ t.pc = "loaded"
    /\ aS' = Stepped([aS EXCEPT !.deleted = @ \cup {t.id}], t, <<>>,
                     "delete.resolved")
    /\ AsyncIdleOthers

\* loadPattern(id): the get, then set({ currentPattern: pattern,
\* analysisResult, uploadedImage }) when the pattern was found
LoadStart ==
  /\ aS.ops < MaxAsyncOps
  /\ \E id \in DOMAIN aS.db :
       aS' = Spawned(Started(aS, "load.start"), Task("load", "get", <<>>, id))
  /\ AsyncIdleOthers
LoadGet ==
  \E t \in aS.tasks :
    /\ t.kind = "load" /\ t.pc = "get"
    /\ aS' = Stepped(aS, t,
                     [t EXCEPT !.pc = "set",
                               !.pat = IF t.id \in DOMAIN aS.db
                                       THEN aS.db[t.id] ELSE <<>>],
                     "load.get")
    /\ AsyncIdleOthers
LoadSet ==
  \E t \in aS.tasks :
    /\ t.kind = "load" /\ t.pc = "set"
    /\ aS' = Stepped(IF t.pat = <<>> THEN aS
                     ELSE [aS EXCEPT !.cur = t.pat, !.analysis = TRUE,
                                     !.image = t.pat.photo],
                     t, <<>>, "load.set")
    /\ AsyncIdleOthers

\* clearCurrent()
ClearCurrent ==
  /\ aS.ops < MaxAsyncOps
  /\ aS' = Started([aS EXCEPT !.cur = <<>>, !.analysis = FALSE,
                              !.image = FALSE], "clearCurrent")
  /\ AsyncIdleOthers

AsyncNext ==
  \/ SetUploadedImage
  \/ GenerateStart
  \/ GenerateTx
  \/ GenerateSet
  \/ GenerateLoaded
  \/ PreviewFetched
  \/ PreviewTx
  \/ RegenerateNow
  \/ ReanalyzeStart
  \/ ReanalyzeAnalyzed
  \/ ReanalyzeTx
  \/ ReanalyzeSet
  \/ SaveStart
  \/ SaveTx
  \/ SaveSet
  \/ DeleteStart
  \/ DeleteTx
  \/ DeleteAfter
  \/ DeleteResolved
  \/ LoadStart
  \/ LoadGet
  \/ LoadSet
  \/ ClearCurrent
SpecAsync == AsyncInit /\ [][AsyncNext]_vars


PreviewPending == \E t \in aS.tasks : t.kind = "preview" /\ t.pc = "fetch"

\* C25: the preview busy flag clears: once no preview request is pending
\* any more (each has returned an image or null), isGeneratingPreview is
\* false, also when the current pattern was cleared, deleted or replaced
\* by a pattern with another id in the meantime.
C25_PreviewFlagClears == aS.flag => PreviewPending

\* every store action has settled and the flag is still set, the pattern
\* the preview was made for having been cleared or deleted
FlagStuckCleared == aS.flag /\ aS.tasks = {} /\ aS.cur = <<>>
\* the same, the current pattern having been replaced by another one
FlagStuckReplaced ==
  /\ aS.flag
  /\ aS.tasks = {}
  /\ aS.cur # <<>>
  /\ aS.last = "preview.dropped"
\* the flag is cleared by a response that brings no image, and by an
\* image for the pattern that is still the current one
FlagClearedOtherwise ==
  aS.last \in {"preview.none", "preview.written"} => ~aS.flag


\* C26: a preview image written onto the current pattern is not lost: the
\* step that completes regeneratePattern or reanalyzeWithColors for the
\* id of the current pattern leaves the previewImageUrl the current
\* pattern had, whatever the order of the preview response and the steps
\* of those actions.
C26_PreviewNeverLost ==
  [][(/\ aS'.last \in {"regenerate.set", "reanalyze.set"}
      /\ aS.cur # <<>>
      /\ aS.cur.preview # ""
      /\ aS'.cur # <<>>
      /\ aS'.cur.id = aS.cur.id)
     => aS'.cur.preview = aS.cur.preview]_vars

\* reanalyzeWithColors has completed for the current pattern, whose
\* preview image is in the database and no longer on the pattern
PreviewLostByReanalyze ==
  /\ aS.last = "reanalyze.set"
  /\ aS.cur.preview = ""
  /\ aS.cur.id \in DOMAIN aS.db
  /\ aS.db[aS.cur.id].preview # ""
\* regeneratePattern keeps the preview image
RegenerateKeepsPreview ==
  [][(aS'.last = "regenerate.set" /\ aS.cur # <<>> /\ aS.cur.preview # "")
     => aS'.cur = aS.cur]_vars
RegeneratedWithPreview ==
  aS.last = "regenerate.set" /\ aS.cur.preview # ""


\* C27: deletion is final: when deletePattern(id) has resolved and no
\* store action is in flight any more, the current pattern does not have
\* that id and the database holds no pattern with that id.
C27_DeletionFinal ==
  aS.tasks = {} =>
    \A id \in aS.deleted :
      /\ aS.cur = <<>> \/ aS.cur.id # id
      /\ id \notin DOMAIN aS.db

\* a concurrent saveCurrentPattern brings the deleted pattern back, as the
\* current pattern and in the database, no preview image being involved
SaveResurrects ==
  /\ aS.tasks = {}
  /\ aS.last = "save.set"
  /\ aS.cur.id \in aS.deleted
  /\ aS.cur.preview = ""
  /\ aS.cur.id \in DOMAIN aS.db
\* generateFromAnalysis and deletePattern alone: the preview save brings
\* the deleted pattern back into the database
PreviewSaveResurrects ==
  /\ aS.tasks = {}
  /\ aS.ops = 2
  /\ \E id \in aS.deleted : id \in DOMAIN aS.db


\* the blocks drawn by materialsPage, abbreviationsSection, patternSection,
\* assemblyPage and notesSection
BandKinds ==
  {"sectionHeader", "hook", "yarnRow", "notion", "stuffing", "supply",
   "separator", "total", "blurb", "abbr", "tip", "aiNotes", "subtitle",
   "instruction", "notes", "difficulty", "step"}
InsideBand(e) == e.y >= CONTENT_TOP /\ e.y + e.h <= CONTENT_BOTTOM
DrawsOutsideBand(log, kinds) ==
  {i \in DOMAIN log : /\ log[i].ev = "draw"
                      /\ log[i].block[1] \in kinds
                      /\ ~InsideBand(log[i])}

\* C28: everything materialsPage, abbreviationsSection, patternSection,
\* assemblyPage and notesSection draw (text, swatch or box) starts at
\* y >= CONTENT_TOP and ends at or above CONTENT_BOTTOM, so nothing
\* overlaps the footer band.
C28_InsideContentBand == DrawsOutsideBand(dS.log, BandKinds) = {}

\* the draw below the band is the total yardage line of materialsPage;
\* every other block of these pages is inside the band
OtherBlocksInsideBand ==
  DrawsOutsideBand(dS.log, BandKinds \ {"total"}) = {}


\* the last store call was op and set a compiled pattern
LastSet(calls, ops) ==
  /\ calls # <<>>
  /\ calls[Len(calls)].op \in ops
  /\ calls[Len(calls)].used # ""
  /\ ~calls[Len(calls)].threw
\* a step in which regeneratePattern or reanalyzeWithColors recompiles the
\* pattern generateFromAnalysis has just created, the analysis being the
\* same before and after it (the customizations are the pattern's own)
RegeneratesGenerated ==
  /\ LastSet(tCalls, {"generateFromAnalysis"})
  /\ Len(tCalls') = Len(tCalls) + 1
  /\ LastSet(tCalls', {"regeneratePattern", "reanalyzeWithColors"})
  /\ tAnalysis' = tAnalysis

\* C29: regeneration keeps the pattern's template: regeneratePattern and
\* reanalyzeWithColors compile with the preset (breed id and size variant)
\* generateFromAnalysis created the current pattern with, so that with
\* unchanged customizations and analysis the regenerated pattern has the
\* same breed and the same sections.
C29_RegenerationKeepsTemplate ==
  [][RegeneratesGenerated =>
       /\ tPattern'.breedId = tPattern.breedId
       /\ tPattern'.generatedPattern.sections
            = tPattern.generatedPattern.sections]_vars

\* the pattern was generated from a size variant of its breed and
\* regenerated from the breed's medium preset
RegeneratedOtherSize ==
  /\ Len(tCalls) = 2
  /\ tCalls[1].op = "generateFromAnalysis"
  /\ LastSet(tCalls, {"regeneratePattern"})
  /\ tCalls[1].used = tCalls[2].used
  /\ tSize # ""
  /\ getPreset(tCalls[1].used, tSize) # getPreset(tCalls[1].used, "")
\* the pattern was generated from the preset of the selected breed and
\* regenerated from the preset of the breed the analysis detected
RegeneratedOtherBreed ==
  /\ Len(tCalls) = 2
  /\ tCalls[1].op = "generateFromAnalysis"
  /\ LastSet(tCalls, {"regeneratePattern"})
  /\ tCalls[1].used # ""
  /\ tCalls[1].used # tCalls[2].used
\* with no size selected and the breed taken from the analysis the
\* regenerated sections are those generated
SameTemplateOtherwise ==
  [][(/\ RegeneratesGenerated
      /\ tSize = ""
      /\ tCalls'[Len(tCalls')].used = tCalls[Len(tCalls)].used)
     => tPattern'.generatedPattern.sections
          = tPattern.generatedPattern.sections]_vars
SameTemplateReached ==
  /\ Len(tCalls) = 2
  /\ tCalls[1].op = "generateFromAnalysis"
  /\ LastSet(tCalls, {"regeneratePattern"})
  /\ tSize = ""
  /\ tCalls[1].used = tCalls[2].used


\* ------------------------------------------------------------------------
\* The upload page.  uS has what the page and its two effects read:
\* canGenerate (a breed and a size are selected), hasFile (selectedFile
\* and uploadedImage are set), the page's isProcessing, the store's
\* isAnalyzing, isGenerating, error (set or not) and currentPattern (cur,
\* its id, 0 when null); nav is the id router.push was last called with
\* (0: never), mounted whether the page is still rendered, gens the ids
\* generateFromAnalysis is saving, and presses, runs and saved count, since
\* the last press of Generate, the calls of generateFromAnalysis and the
\* ids saved.  A step is one state change together with the effects React
\* runs after the render it causes.
\* ------------------------------------------------------------------------
MaxPresses == 2
MaxRuns == 3

UploadInit ==
  /\ uS = [canGenerate |-> FALSE, hasFile |-> FALSE, isProcessing |-> FALSE,
           isAnalyzing |-> FALSE, isGenerating |-> FALSE, error |-> FALSE,
           cur |-> 0, nav |-> 0, mounted |-> TRUE, gens |-> {},
           nextId |-> 1, presses |-> 0, runs |-> 0, saved |-> {}]
  /\ aS = <<>>
  /\ GIdle
  /\ CIdle
  /\ SIdle
  /\ TIdle
  /\ DIdle

UploadIdleOthers ==
  /\ UNCHANGED aS
  /\ UNCHANGED gvars
  /\ UNCHANGED cvars
  /\ UNCHANGED svars
  /\ UNCHANGED tvars
  /\ UNCHANGED dvars

\* generateFromAnalysis up to `await savePattern(pattern)`: isGenerating is
\* set and a pattern with a new id compiled, or the try block threw and
\* the catch set error
BeginGenerate(s, ok) ==
  IF ok
  THEN [s EXCEPT !.runs = @ + 1, !.isGenerating = TRUE, !.error = FALSE,
                 !.gens = @ \cup {s.nextId}, !.nextId = @ + 1]
  ELSE [s EXCEPT !.runs = @ + 1, !.isGenerating = FALSE, !.error = TRUE]

\* the effect "Navigate to editor when pattern is generated"
NavigateEffect(prev, s) ==
  IF /\ s.mounted
     /\ prev.cur # s.cur \/ prev.isGenerating # s.isGenerating
     /\ s.cur # 0
     /\ ~s.isGenerating
  THEN [s EXCEPT !.nav = s.cur]
  ELSE s

\* a variant of the chain's test that also asks for no current pattern
ChainCondition_NoPattern(s) ==
  ~s.isAnalyzing /\ s.isProcessing /\ ~s.error /\ ~s.isGenerating /\ s.cur = 0
\* the test of the effect "Chain: after analysis completes, auto-generate"
ChainCondition(s) ==
  ~s.isAnalyzing /\ s.isProcessing /\ ~s.error /\ ~s.isGenerating
\* the effect runs when one of its dependencies changed
ChainRuns(prev, s) ==
  /\ s.mounted
  /\ \/ prev.isAnalyzing # s.isAnalyzing
     \/ prev.isProcessing # s.isProcessing
     \/ prev.error # s.error
     \/ prev.isGenerating # s.isGenerating
  /\ ChainCondition(s)

\* the effects after the render that shows s instead of prev, in the
\* order the page declares them
Committed(prev, s, ok) ==
  IF ChainRuns(prev, s) THEN BeginGenerate(NavigateEffect(prev, s), ok)
  ELSE NavigateEffect(prev, s)

\* toggleBreed and setSelectedSize until canGenerate holds
SelectBreedAndSize ==
  /\ uS.mounted /\ ~uS.canGenerate /\ ~uS.isProcessing
  /\ uS' = [uS EXCEPT !.canGenerate = TRUE]
  /\ UploadIdleOthers

handleImageSelected ==
  /\ uS.mounted /\ ~uS.hasFile /\ ~uS.isProcessing
  /\ uS' = [uS EXCEPT !.hasFile = TRUE]
  /\ UploadIdleOthers

\* handleGenerate: the button is disabled while isProcessing
Pressed(s, ok) ==
  IF s.hasFile
  THEN [s EXCEPT !.isProcessing = TRUE, !.error = FALSE, !.isAnalyzing = TRUE,
                 !.presses = @ + 1, !.runs = 0, !.saved = {}]
  ELSE BeginGenerate([s EXCEPT !.isProcessing = TRUE, !.error = FALSE,
                               !.presses = @ + 1, !.runs = 0, !.saved = {}],
                     ok)
handleGenerate ==
  /\ uS.mounted /\ ~uS.isProcessing
  /\ uS.presses < MaxPresses
  /\ \E ok \in BOOLEAN :
       uS' = IF ~uS.canGenerate THEN [uS EXCEPT !.presses = @ + 1]
             ELSE Committed(uS, Pressed(uS, ok), ok)
  /\ UploadIdleOthers

handleRetry ==
  /\ uS.mounted /\ uS.error
  /\ uS' = Committed(uS, [uS EXCEPT !.error = FALSE, !.isProcessing = FALSE],
                     TRUE)
  /\ UploadIdleOthers

\* the store's analyzeImage settles: the result, or the catch
AnalyzeSettled ==
  /\ uS.isAnalyzing
  /\ uS.runs < MaxRuns
  /\ \E result \in BOOLEAN : \E ok \in BOOLEAN :
       uS' = Committed(uS, [uS EXCEPT !.isAnalyzing = FALSE,
                                      !.error = ~result], ok)
  /\ UploadIdleOthers

\* savePattern(pattern) of generateFromAnalysis settles: the pattern is
\* saved and becomes the current one, or the catch sets error
Saved(s, id, saved) ==
  IF saved
  THEN [s EXCEPT !.saved = @ \cup {id}, !.cur = id, !.isGenerating = FALSE,
                 !.gens = @ \ {id}]
  ELSE [s EXCEPT !.error = TRUE, !.isGenerating = FALSE, !.gens = @ \ {id}]
GenerateSaved ==
  /\ uS.mounted => uS.runs < MaxRuns
  /\ \E id \in uS.gens : \E saved \in BOOLEAN : \E ok \in BOOLEAN :
       uS' = Committed(uS, Saved(uS, id, saved), ok)
  /\ UploadIdleOthers

\* the navigation router.push started completes: the page unmounts
Navigated ==
  /\ uS.mounted /\ uS.nav # 0
  /\ uS' = [uS EXCEPT !.mounted = FALSE]
  /\ UploadIdleOthers

UploadNext ==
  \/ SelectBreedAndSize
  \/ handleImageSelected
  \/ handleGenerate
  \/ handleRetry
  \/ AnalyzeSettled
  \/ GenerateSaved
  \/ Navigated
SpecUpload == UploadInit /\ [][UploadNext]_vars

\* C30: one press of Generate creates one pattern: from the press on,
\* generateFromAnalysis runs at most once and saves at most one new id,
\* and when the page navigates to the editor it has run exactly once and
\* saved exactly one id, without a photo and with one.
C30_OnePatternPerPress ==
  /\ uS.runs <= 1
  /\ Cardinality(uS.saved) <= 1
  /\ uS.nav # 0 => uS.runs = 1 /\ Cardinality(uS.saved) = 1

\* generateFromAnalysis has run twice after one press
SecondRunNoPhoto == uS.presses = 1 /\ ~uS.hasFile /\ uS.runs = 2
SecondRunPhoto == uS.presses = 1 /\ uS.hasFile /\ uS.runs = 2
\* two ids were saved after one press and the editor opens on the first
TwoPatternsSaved ==
  uS.presses = 1 /\ Cardinality(uS.saved) = 2 /\ ~uS.mounted /\ uS.nav = 1
\* up to the first save the chain starts generateFromAnalysis once
OneRunUntilSaved == uS.cur = 0 => uS.runs <= 1

============================================================================
